---- MODULE Spec2Model ----
(***************************************************************************)
(* A model of backend/adaptive_detector.py (AdaptiveFraudDetector) and of  *)
(* the way backend/hackathon_live.py drives it.                            *)
(*                                                                         *)
(* Numbers.  Density scores are naturals counted in units of 1e-20, the    *)
(* epsilon of _calculate_confidence, so that score + 1e-20 is s + 1.       *)
(* Thresholds are exact rationals [n, d] in lowest terms (np.percentile    *)
(* interpolates and _recalibrate blends, so they leave the integers).      *)
(* Floating-point rounding is not modelled: every comparison is exact.     *)
(***************************************************************************)
EXTENDS Integers, Sequences, FiniteSets, TLC

VARIABLES
    calibration_size,    \* self.calibration_size (constructor argument)
    base_threshold,      \* self.detector.threshold
    calibration_probs,   \* self.calibration_probs, deque(maxlen=calibration_size)
    is_calibrated,       \* self.is_calibrated
    adaptive_threshold,  \* self.adaptive_threshold
    recent_probs,        \* self.recent_probs, deque(maxlen=100)
    recent_predictions,  \* self.recent_predictions, deque(maxlen=100)
    total_processed,     \* self.total_processed
    total_fraud,         \* self.total_fraud
    ret,                 \* what the last call returned
    hist,                \* history: every item of every completed call, <<score, decision>>
    ncalls,              \* history: number of calls made so far
    ncalibrate,          \* history: number of times _calibrate has run
    since_check,         \* history: items processed while Calibrated since the last _recalibrate call
    calib,               \* history: what _calibrate computed, and after how many items
    last,                \* history: what the last call did (ran _calibrate, ran _recalibrate)
    pc,                  \* per worker thread: the line of predict_with_confidence it is at
    loc,                 \* per worker thread: its local variables
    d0,                  \* history: the detector when the first worker thread was started
    truths,              \* optimal_threshold: the argument truths (labels, 0 or 1)
    probabilities,       \* optimal_threshold: the argument probabilities (scores)
    mean_values,         \* FraudDetector: self.mean_values
    covariance_matrix,   \* FraudDetector: self.covariance_matrix
    threshold,           \* FraudDetector: self.threshold
    normalization_mean,  \* FraudDetector: self.normalization_mean
    normalization_std,   \* FraudDetector: self.normalization_std
    encoders,            \* FraudDetector: self.encoders
    training_columns,    \* FraudDetector: self.training_columns
    feature_columns,     \* FraudDetector: self.feature_columns
    metrics,             \* FraudDetector: self.metrics
    is_trained,          \* FraudDetector: self.is_trained
    model_file,          \* the file save_model writes and load_model reads
    fd_before,           \* history: the FraudDetector's fields before the last call
    file_before,         \* history: the file before the last call
    fd_calls,            \* history: number of FraudDetector calls made so far
    fd_call,             \* history: the FraudDetector method called last and its argument
    answers,             \* history: what predict returned, per input, since the last train or load
    saved,               \* history: the fields and the file at the last successful save_model
    stats,               \* hackathon_live: the counters of the global dict stats
    lock,                \* hackathon_live: the thread holding the global lock, 0 when it is free
    lpc,                 \* per worker thread: the line of process_transaction it is at
    txn,                 \* per worker thread: its transaction, its locals, and how often it was counted
    fraud_detector_cache, \* transaction_routes: the global _fraud_detector_cache (None or an object)
    objects,             \* transaction_routes: the FraudDetector objects created so far
    artifact,            \* transaction_routes: the file fraud_detector_model.pkl
    gpc,                 \* per request thread: the line of get_fraud_detector it is at
    gloc,                \* per request thread: original_threshold and the detector returned
    IN_MEMORY_NOTIFICATIONS, \* notification_service: the module's in-memory store
    db_available,        \* notification_service: whether get_db() returns a connection
    db_notifications,    \* notification_service: the collection db.notifications
    nf_call,             \* history: the NotificationService method called last, its argument, the stores before it
    nf_ret,              \* what the last NotificationService call returned
    nf_ids               \* history: the ids add_notification returned for in-memory notifications

vars == <<calibration_size, base_threshold, calibration_probs, is_calibrated,
          adaptive_threshold, recent_probs, recent_predictions, total_processed,
          total_fraud, ret, hist, ncalls, ncalibrate, since_check, calib, last, pc, loc, d0,
          truths, probabilities, mean_values, covariance_matrix, threshold,
          normalization_mean, normalization_std, encoders, training_columns,
          feature_columns, metrics, is_trained, model_file, fd_before, file_before,
          fd_calls, fd_call, answers, saved, stats, lock, lpc, txn, fraud_detector_cache,
          objects, artifact, gpc, gloc, IN_MEMORY_NOTIFICATIONS, db_available,
          db_notifications, nf_call, nf_ret, nf_ids>>

tvars == <<pc, loc, d0>>

optvars == <<truths, probabilities>>

\* everything that is not part of the adaptive detector or of the threads driving it
fieldvars == <<mean_values, covariance_matrix, threshold, normalization_mean,
               normalization_std, encoders, training_columns, feature_columns, metrics,
               is_trained>>

fdvars == <<fieldvars, model_file, fd_before, file_before, fd_calls, fd_call, answers,
            saved>>

livevars == <<stats, lock, lpc, txn>>

routevars == <<fraud_detector_cache, objects, artifact, gpc, gloc>>

notifvars == <<IN_MEMORY_NOTIFICATIONS, db_available, db_notifications, nf_call, nf_ret,
               nf_ids>>

svcvars == <<routevars, notifvars>>

xvars == <<optvars, svcvars, fdvars, livevars>>

detvars == <<calibration_size, base_threshold, calibration_probs, is_calibrated,
             adaptive_threshold, recent_probs, recent_predictions, total_processed,
             total_fraud>>

(***************************************************************************)
(* Program constants.                                                      *)
(***************************************************************************)
RECENT_MAXLEN == 100
RECAL_EVERY == 100
RECAL_MIN_SAMPLES == 50
TARGET_PERCENT == 15
TOLERANCE_PERCENT == 10
SMOOTH_OLD == 7
SMOOTH_NEW == 3
CONF_FULL_RATIO == 100

(***************************************************************************)
(* Bounds of the model.                                                    *)
(***************************************************************************)
MaxCalibrationSize == 3
MaxCalls == 3
StreamFree == 4
StreamBlock == 50
MaxPureItems == 3
MaxThreads == 2

Scores == {1, 10}
BaseThresholds == {5}
BatchSizes == {1, 2, 25, 50, 100}
\* the calibration sizes a detector is constructed with: the small ones, and one that
\* makes the calibrating call coincide with a recalibration check
CalibrationSizes == (1..MaxCalibrationSize) \cup {2 * RECAL_EVERY}

(***************************************************************************)
(* Exact rationals.                                                        *)
(***************************************************************************)
RECURSIVE GCD(_, _)
GCD(a, b) == IF b = 0 THEN a ELSE GCD(b, a % b)

Abs(x) == IF x < 0 THEN -x ELSE x

Rat(n, d) ==
    LET g == GCD(Abs(n), d)
    IN  [n |-> n \div g, d |-> d \div g]

FromInt(s) == [n |-> s, d |-> 1]

RatLess(a, b) == a.n * b.d < b.n * a.d

RatLeq(a, b) == a.n * b.d <= b.n * a.d

Min(a, b) == IF a < b THEN a ELSE b

Rep(n, s) == [i \in 1..n |-> s]

(***************************************************************************)
(* collections.deque(maxlen=m).append                                      *)
(***************************************************************************)
DequeAppend(q, x, m) ==
    LET a == Append(q, x)
    IN  IF Len(a) > m THEN SubSeq(a, 2, Len(a)) ELSE a

\* mutant: a full deque refuses new entries instead of evicting the oldest
DequeExtendKeepsOldest(q, xs, m) ==
    LET a == q \o xs
    IN  IF Len(a) > m THEN SubSeq(a, 1, m) ELSE a

\* a loop of appends (for x in xs: q.append(x)): what is left is the tail of q \o xs
DequeExtend(q, xs, m) ==
    LET a == q \o xs
    IN  IF Len(a) > m THEN SubSeq(a, Len(a) - m + 1, Len(a)) ELSE a

(***************************************************************************)
(* np.percentile(a, q), linear interpolation: the virtual index is         *)
(* q/100 * (n-1); the result lies between the two order statistics around  *)
(* it.                                                                     *)
(***************************************************************************)
CountBelow(a, v) == Cardinality({i \in 1..Len(a) : a[i] < v})

CountUpTo(a, v) == Cardinality({i \in 1..Len(a) : a[i] <= v})

\* the k-th entry (from 0) of sorted(a)
OrderStat(a, k) ==
    CHOOSE v \in {a[i] : i \in 1..Len(a)} : CountBelow(a, v) <= k /\ k < CountUpTo(a, v)

Percentile(a, q) ==
    LET pos == q * (Len(a) - 1)
        lo  == pos \div 100
        fr  == pos % 100
        hi  == Min(lo + 1, Len(a) - 1)
        x   == OrderStat(a, lo)
        y   == OrderStat(a, hi)
    IN  Rat(100 * x + fr * (y - x), 100)

\* np.mean(recent_predictions) compared with the target: |k/n - T/100| > tol/100
Ones(a) == Cardinality({i \in 1..Len(a) : a[i] = 1})

RateDeviates(preds) ==
    Abs(100 * Ones(preds) - TARGET_PERCENT * Len(preds)) > TOLERANCE_PERCENT * Len(preds)

\* mutant: the two weights do not sum to 1 (0.7 * old + 0.7 * new)
SmoothHeavy(old, new) ==
    Rat(SMOOTH_OLD * old.n * new.d + SMOOTH_OLD * new.n * old.d,
        (SMOOTH_OLD + SMOOTH_NEW) * old.d * new.d)

\* 0.7 * old + 0.3 * new
Smooth(old, new) ==
    Rat(SMOOTH_OLD * old.n * new.d + SMOOTH_NEW * new.n * old.d,
        (SMOOTH_OLD + SMOOTH_NEW) * old.d * new.d)

(***************************************************************************)
(* The detector as a record, so that a whole call is one operator.         *)
(***************************************************************************)
Det ==
    [calibration_size   |-> calibration_size,
     base_threshold     |-> base_threshold,
     calibration_probs  |-> calibration_probs,
     is_calibrated      |-> is_calibrated,
     adaptive_threshold |-> adaptive_threshold,
     recent_probs       |-> recent_probs,
     recent_predictions |-> recent_predictions,
     total_processed    |-> total_processed,
     total_fraud        |-> total_fraud]

\* AdaptiveFraudDetector.__init__
NewDetector(size, thr) ==
    [calibration_size   |-> size,
     base_threshold     |-> thr,
     calibration_probs  |-> <<>>,
     is_calibrated      |-> FALSE,
     adaptive_threshold |-> FromInt(thr),
     recent_probs       |-> <<>>,
     recent_predictions |-> <<>>,
     total_processed    |-> 0,
     total_fraud        |-> 0]

\* _calibrate
Calibrate(d) ==
    [d EXCEPT !.adaptive_threshold = Percentile(d.calibration_probs, TARGET_PERCENT),
              !.is_calibrated = TRUE]

\* mutant: the tolerance test is >= instead of >
RecalAdjustsInclusive(d) ==
    /\ Len(d.recent_probs) >= RECAL_MIN_SAMPLES
    /\ Abs(100 * Ones(d.recent_predictions) - TARGET_PERCENT * Len(d.recent_predictions))
          >= TOLERANCE_PERCENT * Len(d.recent_predictions)

\* _recalibrate
RecalAdjusts(d) ==
    /\ Len(d.recent_probs) >= RECAL_MIN_SAMPLES
    /\ RateDeviates(d.recent_predictions)

Recalibrate(d) ==
    IF RecalAdjusts(d)
    THEN [d EXCEPT !.adaptive_threshold =
              Smooth(d.adaptive_threshold, Percentile(d.recent_probs, TARGET_PERCENT))]
    ELSE d

\* mutant: the distance is not clipped at 1
ConfidenceOfUnclipped(p, t) ==
    LET a == (p + 1) * t.d
        b == t.n + t.d
        h == IF a >= b THEN a ELSE b
        l == IF a >= b THEN b ELSE a
        g == GCD(h, l)
    IN  [hi |-> h \div g, lo |-> l \div g]

\* _calculate_confidence for one score: clip(|log10(p + eps) - log10(t + eps)| / 2, 0, 1).
\* The value is kept as the ratio it is the logarithm of: [hi, lo] with hi >= lo > 0
\* stands for log10(hi / lo) / 2, and everything from hi = 100 * lo on is clipped to 1.
ConfidenceOf(p, t) ==
    LET a == (p + 1) * t.d
        b == t.n + t.d
        h == IF a >= b THEN a ELSE b
        l == IF a >= b THEN b ELSE a
    IN  IF h >= CONF_FULL_RATIO * l THEN [hi |-> CONF_FULL_RATIO, lo |-> 1]
        ELSE LET g == GCD(h, l) IN [hi |-> h \div g, lo |-> l \div g]

CalculateConfidence(probs, t) == [i \in 1..Len(probs) |-> ConfidenceOf(probs[i], t)]

ConfLeq(c1, c2) == c1.hi * c2.lo <= c2.hi * c1.lo

ConfZero == [hi |-> 1, lo |-> 1]

ConfOne == [hi |-> CONF_FULL_RATIO, lo |-> 1]

\* (probabilities < self.adaptive_threshold).astype(int)
AdaptivePredictions(probs, t) ==
    [i \in 1..Len(probs) |-> IF RatLess(FromInt(probs[i]), t) THEN 1 ELSE 0]

\* mutant: the "if not self.is_calibrated" guard is missing
CalibrationStepUnguarded(d, probs) ==
    LET b == [d EXCEPT !.calibration_probs =
                  DequeExtend(d.calibration_probs, probs, d.calibration_size)]
    IN  IF Len(b.calibration_probs) >= b.calibration_size THEN Calibrate(b) ELSE b

\* mutant: the buffer-full test is > instead of >=
CalibrationStepLate(d, probs) ==
    IF d.is_calibrated THEN d
    ELSE LET b == [d EXCEPT !.calibration_probs =
                       DequeExtend(d.calibration_probs, probs, d.calibration_size)]
         IN  IF Len(b.calibration_probs) > b.calibration_size THEN Calibrate(b) ELSE b

\* lines 59-65: the calibration buffer, and _calibrate once it is full
CalibrationStep(d, probs) ==
    IF d.is_calibrated THEN d
    ELSE LET b == [d EXCEPT !.calibration_probs =
                       DequeExtend(d.calibration_probs, probs, d.calibration_size)]
         IN  IF Len(b.calibration_probs) >= b.calibration_size THEN Calibrate(b) ELSE b

\* lines 74-75: the counters
CountStep(d, preds) ==
    [d EXCEPT !.total_processed = @ + Len(preds),
              !.total_fraud = @ + Ones(preds)]

\* mutant: the decision window is created with the wrong maxlen
WindowStepShortDecisions(d, probs, preds) ==
    [d EXCEPT !.recent_probs = DequeExtend(@, probs, RECENT_MAXLEN),
              !.recent_predictions = DequeExtend(@, preds, RECAL_MIN_SAMPLES)]

\* lines 78-80: the rolling windows
WindowStep(d, probs, preds) ==
    [d EXCEPT !.recent_probs = DequeExtend(@, probs, RECENT_MAXLEN),
              !.recent_predictions = DequeExtend(@, preds, RECENT_MAXLEN)]

\* line 83: the periodic recalibration check
RecalDue(d) == d.total_processed % RECAL_EVERY = 0 /\ d.is_calibrated

\* predict_with_confidence, given the scores the base detector returned for the rows
PredictWithConfidence(d, probs) ==
    LET d1    == CalibrationStep(d, probs)
        conf  == CalculateConfidence(probs, d1.adaptive_threshold)
        preds == AdaptivePredictions(probs, d1.adaptive_threshold)
        d2    == CountStep(d1, preds)
        d3    == WindowStep(d2, probs, preds)
        d4    == IF RecalDue(d3) THEN Recalibrate(d3) ELSE d3
    IN  [det |-> d4,
         ran_calibrate |-> (~d.is_calibrated /\ d1.is_calibrated),
         used_threshold |-> d1.adaptive_threshold,
         ran_recalibrate |-> RecalDue(d3),
         ret |-> [op |-> "predict_with_confidence",
                  predictions |-> preds,
                  probabilities |-> probs,
                  confidence |-> conf,
                  fraud_rate |-> Rat(d4.total_fraud, d4.total_processed)]]

\* mutant: a score equal to the threshold counts as below it
ShouldFlagOfInclusive(t, probability, confidence, min_confidence) ==
    RatLeq(FromInt(probability), t) /\ ConfLeq(min_confidence, confidence)

\* should_flag
ShouldFlagOf(t, probability, confidence, min_confidence) ==
    RatLess(FromInt(probability), t) /\ ConfLeq(min_confidence, confidence)

(***************************************************************************)
(* The sequential detector: one caller, one call at a time.                *)
(***************************************************************************)
SetDet(d) ==
    /\ calibration_size' = d.calibration_size
    /\ base_threshold' = d.base_threshold
    /\ calibration_probs' = d.calibration_probs
    /\ is_calibrated' = d.is_calibrated
    /\ adaptive_threshold' = d.adaptive_threshold
    /\ recent_probs' = d.recent_probs
    /\ recent_predictions' = d.recent_predictions
    /\ total_processed' = d.total_processed
    /\ total_fraud' = d.total_fraud

NoCall == [op |-> "none"]

Threads == 1..MaxThreads

NoLocals == [prob |-> 0, snap |-> <<>>, conf |-> ConfZero, pred |-> 0, tp |-> 0, tf |-> 0]

NoTrace == [items |-> 0, ran_calibrate |-> FALSE, ran_recalibrate |-> FALSE]

\* no call of optimal_threshold is under consideration
InitOptimizer ==
    /\ truths = <<>>
    /\ probabilities = <<>>

\* Python's None, and an empty dict
None == [none |-> TRUE]

EmptyDict == [k \in {} |-> 0]

\* get_feature_columns(): base_features + optional_features
GetFeatureColumns ==
    <<"amt", "amt_log", "distance", "hour", "day_of_week", "is_night", "is_weekend",
      "gender_encoded", "age", "city_pop_log", "lat", "long", "merch_lat", "merch_long">>

\* the fields of a FraudDetector as one record
FD ==
    [mean_values |-> mean_values, covariance_matrix |-> covariance_matrix,
     threshold |-> threshold, normalization_mean |-> normalization_mean,
     normalization_std |-> normalization_std, encoders |-> encoders,
     training_columns |-> training_columns, feature_columns |-> feature_columns,
     metrics |-> metrics, is_trained |-> is_trained]

\* FraudDetector.__init__ with the default feature_columns
NewFraudDetector ==
    [mean_values |-> None, covariance_matrix |-> None, threshold |-> None,
     normalization_mean |-> None, normalization_std |-> None, encoders |-> None,
     training_columns |-> None, feature_columns |-> GetFeatureColumns,
     metrics |-> EmptyDict, is_trained |-> FALSE]

SetFD(d) ==
    /\ mean_values' = d.mean_values
    /\ covariance_matrix' = d.covariance_matrix
    /\ threshold' = d.threshold
    /\ normalization_mean' = d.normalization_mean
    /\ normalization_std' = d.normalization_std
    /\ encoders' = d.encoders
    /\ training_columns' = d.training_columns
    /\ feature_columns' = d.feature_columns
    /\ metrics' = d.metrics
    /\ is_trained' = d.is_trained

NoFile == [kind |-> "missing"]

\* a fresh FraudDetector, no model file on disk
InitFraudDetector ==
    /\ mean_values = NewFraudDetector.mean_values
    /\ covariance_matrix = NewFraudDetector.covariance_matrix
    /\ threshold = NewFraudDetector.threshold
    /\ normalization_mean = NewFraudDetector.normalization_mean
    /\ normalization_std = NewFraudDetector.normalization_std
    /\ encoders = NewFraudDetector.encoders
    /\ training_columns = NewFraudDetector.training_columns
    /\ feature_columns = NewFraudDetector.feature_columns
    /\ metrics = NewFraudDetector.metrics
    /\ is_trained = NewFraudDetector.is_trained
    /\ model_file = NoFile
    /\ fd_before = NewFraudDetector
    /\ file_before = NoFile
    /\ fd_calls = 0
    /\ fd_call = [name |-> "__init__", arg |-> None]
    /\ answers = EmptyDict
    /\ saved = None

\* the globals of hackathon_live.py, lines 43-56, before any transaction has arrived
NewStats == [total_processed |-> 0, fraud_detected |-> 0, legitimate |-> 0, errors |-> 0]

NoTransaction == [kind |-> "none", prob |-> 0, is_fraud |-> 0, counted |-> 0, failed |-> 0]

InitLive ==
    /\ stats = NewStats
    /\ lock = 0
    /\ lpc = [t \in Threads |-> "idle"]
    /\ txn = [t \in Threads |-> NoTransaction]

\* the route module and the notification module after import, no request made
NoRequest == [original_threshold |-> None, detector |-> None]

InitRoute(files) ==
    /\ fraud_detector_cache = None
    /\ objects = <<>>
    /\ artifact \in files
    /\ gpc = [t \in Threads |-> "idle"]
    /\ gloc = [t \in Threads |-> NoRequest]

InitNotifications ==
    /\ IN_MEMORY_NOTIFICATIONS = <<>>
    /\ db_available = TRUE
    /\ db_notifications = <<>>
    /\ nf_call = [name |-> "none", arg |-> <<>>, store |-> <<>>, db_store |-> <<>>,
                  db |-> TRUE]
    /\ nf_ret = NoCall
    /\ nf_ids = {}

InitService == InitRoute({NoFile}) /\ InitNotifications

InitRest == InitOptimizer /\ InitFraudDetector /\ InitLive /\ InitService

InitAdaptive(sizes, thresholds) ==
    /\ \E size \in sizes, thr \in thresholds :
          /\ calibration_size = size
          /\ base_threshold = thr
          /\ calibration_probs = <<>>
          /\ is_calibrated = FALSE
          /\ adaptive_threshold = FromInt(thr)
          /\ recent_probs = <<>>
          /\ recent_predictions = <<>>
          /\ total_processed = 0
          /\ total_fraud = 0
    /\ ret = NoCall
    /\ hist = <<>>
    /\ ncalls = 0
    /\ ncalibrate = 0
    /\ since_check = 0
    /\ calib = [ran |-> FALSE]
    /\ last = NoTrace
    /\ pc = [t \in Threads |-> "idle"]
    /\ loc = [t \in Threads |-> NoLocals]
    /\ d0 = NoCall

InitWith(sizes, thresholds) == InitAdaptive(sizes, thresholds) /\ InitRest

Init == InitWith(CalibrationSizes, BaseThresholds)

Items(probs, preds) == [i \in 1..Len(probs) |-> <<probs[i], preds[i]>>]

\* a completed call of predict_with_confidence on rows that score probs
Call(probs) ==
    \E r \in {PredictWithConfidence(Det, probs)} :
        /\ SetDet(r.det)
        /\ ret' = r.ret
        /\ hist' = hist \o Items(r.ret.probabilities, r.ret.predictions)
        /\ ncalls' = ncalls + 1
        /\ ncalibrate' = ncalibrate + (IF r.ran_calibrate THEN 1 ELSE 0)
        /\ since_check' = IF r.ran_recalibrate \/ ~r.det.is_calibrated THEN 0
                          ELSE IF r.ran_calibrate THEN 0
                          ELSE since_check + Len(probs)
        /\ calib' = IF r.ran_calibrate
                    THEN [ran |-> TRUE, threshold |-> r.used_threshold,
                          before |-> Len(hist), items |-> Len(hist) + Len(probs)]
                    ELSE calib
        /\ last' = [items |-> Len(probs), ran_calibrate |-> r.ran_calibrate,
                    ran_recalibrate |-> r.ran_recalibrate,
                    used_threshold |-> r.used_threshold]

\* a call on a batch of n rows that all score s
Predict(n, s) ==
    /\ ncalls < MaxCalls
    /\ Call(Rep(n, s))
    /\ UNCHANGED <<tvars, xvars>>

\* mutant: the items are counted before the base detector is asked
PredictRaisesCounted ==
    /\ ncalls < MaxCalls
    /\ ret' = [op |-> "raise"]
    /\ ncalls' = ncalls + 1
    /\ last' = NoTrace
    /\ total_processed' = total_processed + 1
    /\ UNCHANGED <<calibration_size, base_threshold, calibration_probs, is_calibrated,
                   adaptive_threshold, recent_probs, recent_predictions, total_fraud, hist,
                   ncalibrate, since_check, calib, tvars, xvars>>

\* a call in which self.detector.predict raises (line 56): nothing has been touched yet
PredictRaises ==
    /\ ncalls < MaxCalls
    /\ ret' = [op |-> "raise"]
    /\ ncalls' = ncalls + 1
    /\ last' = NoTrace
    /\ UNCHANGED <<detvars, hist, ncalibrate, since_check, calib, tvars, xvars>>

Next ==
    \/ \E n \in BatchSizes, s \in Scores : Predict(n, s)
    \/ PredictRaises

Spec == Init /\ [][Next]_vars

(***************************************************************************)
(* A stream fed one row per call to a fresh detector, until one item past  *)
(* the calibration.  The first StreamFree scores are arbitrary; after them *)
(* the score may change only every StreamBlock items.                      *)
(***************************************************************************)
FeedOne(s) ==
    /\ Len(hist) <= calibration_size
    /\ (Len(hist) >= StreamFree /\ Len(hist) % StreamBlock # 0) => s = hist[Len(hist)][1]
    /\ Call(<<s>>)
    /\ UNCHANGED <<tvars, xvars>>

NextStream == \E s \in Scores : FeedOne(s)

SpecStream == Init /\ [][NextStream]_vars

(***************************************************************************)
(* The two pure methods, should_flag and _calculate_confidence, called     *)
(* with arbitrary arguments on a detector that has processed a few items.  *)
(* Base thresholds here are both near the epsilon (5 units) and far above  *)
(* it (1000 units).                                                        *)
(***************************************************************************)
PureThresholds == {5, 1000}
PureScores == {0, 1, 5, 10, 100, 1000}
\* confidence values: 0, about 0.15, about 0.3 (the default gate), 0.5, 1
ConfValues == {ConfZero, [hi |-> 2, lo |-> 1], [hi |-> 4, lo |-> 1],
               [hi |-> 10, lo |-> 1], ConfOne}

InitPure == InitWith(1..MaxCalibrationSize, PureThresholds)

FeedPure(s) ==
    /\ Len(hist) < MaxPureItems
    /\ Call(<<s>>)
    /\ UNCHANGED <<tvars, xvars>>

ShouldFlag(probability, confidence, min_confidence) ==
    /\ ret' = [op |-> "should_flag",
               probability |-> probability,
               confidence |-> confidence,
               min_confidence |-> min_confidence,
               value |-> ShouldFlagOf(adaptive_threshold, probability, confidence,
                                      min_confidence)]
    /\ UNCHANGED <<detvars, hist, ncalls, ncalibrate, since_check, calib, last, pc, loc, d0, xvars>>

CalcConfidence(probs) ==
    /\ ret' = [op |-> "_calculate_confidence",
               probabilities |-> probs,
               value |-> CalculateConfidence(probs, adaptive_threshold)]
    /\ UNCHANGED <<detvars, hist, ncalls, ncalibrate, since_check, calib, last, pc, loc, d0, xvars>>

NextPure ==
    \/ \E s \in Scores : FeedPure(s)
    \/ \E p \in PureScores, c \in ConfValues, mc \in ConfValues : ShouldFlag(p, c, mc)
    \/ \E p1 \in PureScores, p2 \in PureScores : CalcConfidence(<<p1, p2>>)

SpecPure == InitPure /\ [][NextPure]_vars

(***************************************************************************)
(* The live stream (hackathon_live.py): main starts one thread per         *)
(* transaction, and every thread calls predict_with_confidence with one    *)
(* row on the shared detector, with no lock around the call.  A thread     *)
(* may be preempted between any two statements below; each statement is    *)
(* taken as atomic (one deque.append, one attribute read or write), and    *)
(* _recalibrate as a whole.  Transactions that are processed before the    *)
(* next one arrives (RunAlone) run as one step.  Worker threads are        *)
(* started at the beginning of the stream or shortly before the first      *)
(* recalibration check is due.                                             *)
(***************************************************************************)
ghostvars == <<ret, hist, ncalls, ncalibrate, since_check, calib, last>>

InitThreads == InitWith(1..MaxCalibrationSize, BaseThresholds)

BurstStarted == \E t \in Threads : pc[t] # "idle"

Quiet == \A t \in Threads : pc[t] \in {"idle", "done"}

Go(t, l) == pc' = [pc EXCEPT ![t] = l]

RunAlone(s) ==
    /\ ~BurstStarted
    /\ Len(hist) < RECAL_EVERY - 1
    /\ (Len(hist) >= StreamFree /\ Len(hist) % StreamBlock # 0) => s = hist[Len(hist)][1]
    /\ Call(<<s>>)
    /\ UNCHANGED <<tvars, xvars>>

\* main, lines 401-408: threading.Thread(target=process_transaction).start()
Spawn(t, s) ==
    /\ pc[t] = "idle"
    /\ \A u \in Threads : u < t => pc[u] # "idle"
    /\ \/ BurstStarted
       \/ Len(hist) <= MaxCalibrationSize
       \/ Len(hist) >= RECAL_EVERY - MaxThreads
    /\ Go(t, "l56")
    /\ loc' = [loc EXCEPT ![t] = [NoLocals EXCEPT !.prob = s]]
    /\ d0' = IF BurstStarted THEN d0 ELSE Det
    /\ UNCHANGED <<detvars, ghostvars, xvars>>

\* line 56: predictions, probabilities, _ = self.detector.predict(df)
T56(t) ==
    /\ pc[t] = "l56"
    /\ Go(t, "l59")
    /\ UNCHANGED <<detvars, ghostvars, loc, d0, xvars>>

\* line 59: if not self.is_calibrated
T59(t) ==
    /\ pc[t] = "l59"
    /\ Go(t, IF ~is_calibrated THEN "l61" ELSE "l68")
    /\ UNCHANGED <<detvars, ghostvars, loc, d0, xvars>>

\* line 61: self.calibration_probs.append(prob)
T61(t) ==
    /\ pc[t] = "l61"
    /\ calibration_probs' = DequeAppend(calibration_probs, loc[t].prob, calibration_size)
    /\ Go(t, "l64")
    /\ UNCHANGED <<calibration_size, base_threshold, is_calibrated, adaptive_threshold,
                   recent_probs, recent_predictions, total_processed, total_fraud,
                   ghostvars, loc, d0, xvars>>

\* line 64: if len(self.calibration_probs) >= self.calibration_size
T64(t) ==
    /\ pc[t] = "l64"
    /\ Go(t, IF Len(calibration_probs) >= calibration_size THEN "l92" ELSE "l68")
    /\ UNCHANGED <<detvars, ghostvars, loc, d0, xvars>>

\* line 92: probs = np.array(self.calibration_probs)
T92(t) ==
    /\ pc[t] = "l92"
    /\ loc' = [loc EXCEPT ![t].snap = calibration_probs]
    /\ ncalibrate' = ncalibrate + 1
    /\ Go(t, "l97")
    /\ UNCHANGED <<detvars, ret, hist, ncalls, since_check, calib, last, d0, xvars>>

\* line 97: self.adaptive_threshold = np.percentile(probs, percentile)
T97(t) ==
    /\ pc[t] = "l97"
    /\ adaptive_threshold' = Percentile(loc[t].snap, TARGET_PERCENT)
    /\ Go(t, "l99")
    /\ UNCHANGED <<calibration_size, base_threshold, calibration_probs, is_calibrated,
                   recent_probs, recent_predictions, total_processed, total_fraud,
                   ghostvars, loc, d0, xvars>>

\* line 99: self.is_calibrated = True
T99(t) ==
    /\ pc[t] = "l99"
    /\ is_calibrated' = TRUE
    /\ Go(t, "l68")
    /\ UNCHANGED <<calibration_size, base_threshold, calibration_probs, adaptive_threshold,
                   recent_probs, recent_predictions, total_processed, total_fraud,
                   ghostvars, loc, d0, xvars>>

\* line 68: confidence = self._calculate_confidence(probabilities)
T68(t) ==
    /\ pc[t] = "l68"
    /\ loc' = [loc EXCEPT ![t].conf = ConfidenceOf(loc[t].prob, adaptive_threshold)]
    /\ Go(t, "l71")
    /\ UNCHANGED <<detvars, ghostvars, d0, xvars>>

\* line 71: adaptive_predictions = (probabilities < self.adaptive_threshold).astype(int)
T71(t) ==
    /\ pc[t] = "l71"
    /\ loc' = [loc EXCEPT ![t].pred = AdaptivePredictions(<<loc[t].prob>>, adaptive_threshold)[1]]
    /\ Go(t, "l74")
    /\ UNCHANGED <<detvars, ghostvars, d0, xvars>>

\* line 74, the read of self.total_processed += len(predictions)
T74(t) ==
    /\ pc[t] = "l74"
    /\ loc' = [loc EXCEPT ![t].tp = total_processed]
    /\ Go(t, "l74w")
    /\ UNCHANGED <<detvars, ghostvars, d0, xvars>>

\* line 74, the write
T74w(t) ==
    /\ pc[t] = "l74w"
    /\ total_processed' = loc[t].tp + 1
    /\ Go(t, "l75")
    /\ UNCHANGED <<calibration_size, base_threshold, calibration_probs, is_calibrated,
                   adaptive_threshold, recent_probs, recent_predictions, total_fraud,
                   ghostvars, loc, d0, xvars>>

\* line 75, the read of self.total_fraud += adaptive_predictions.sum()
T75(t) ==
    /\ pc[t] = "l75"
    /\ loc' = [loc EXCEPT ![t].tf = total_fraud]
    /\ Go(t, "l75w")
    /\ UNCHANGED <<detvars, ghostvars, d0, xvars>>

\* line 75, the write
T75w(t) ==
    /\ pc[t] = "l75w"
    /\ total_fraud' = loc[t].tf + loc[t].pred
    /\ Go(t, "l79")
    /\ UNCHANGED <<calibration_size, base_threshold, calibration_probs, is_calibrated,
                   adaptive_threshold, recent_probs, recent_predictions, total_processed,
                   ghostvars, loc, d0, xvars>>

\* line 79: self.recent_probs.append(prob)
T79(t) ==
    /\ pc[t] = "l79"
    /\ recent_probs' = DequeAppend(recent_probs, loc[t].prob, RECENT_MAXLEN)
    /\ Go(t, "l80")
    /\ UNCHANGED <<calibration_size, base_threshold, calibration_probs, is_calibrated,
                   adaptive_threshold, recent_predictions, total_processed, total_fraud,
                   ghostvars, loc, d0, xvars>>

\* line 80: self.recent_predictions.append(pred)
T80(t) ==
    /\ pc[t] = "l80"
    /\ recent_predictions' = DequeAppend(recent_predictions, loc[t].pred, RECENT_MAXLEN)
    /\ Go(t, "l83")
    /\ UNCHANGED <<calibration_size, base_threshold, calibration_probs, is_calibrated,
                   adaptive_threshold, recent_probs, total_processed, total_fraud,
                   ghostvars, loc, d0, xvars>>

\* line 83: if self.total_processed % 100 == 0 and self.is_calibrated
T83(t) ==
    /\ pc[t] = "l83"
    /\ Go(t, IF RecalDue(Det) THEN "l112" ELSE "l86")
    /\ UNCHANGED <<detvars, ghostvars, loc, d0, xvars>>

\* lines 110-126: self._recalibrate()
T112(t) ==
    /\ pc[t] = "l112"
    /\ adaptive_threshold' = Recalibrate(Det).adaptive_threshold
    /\ Go(t, "l86")
    /\ UNCHANGED <<calibration_size, base_threshold, calibration_probs, is_calibrated,
                   recent_probs, recent_predictions, total_processed, total_fraud,
                   ghostvars, loc, d0, xvars>>

\* lines 86-88: fraud_rate = ...; return
T86(t) ==
    /\ pc[t] = "l86"
    /\ ret' = [op |-> "predict_with_confidence",
               predictions |-> <<loc[t].pred>>,
               probabilities |-> <<loc[t].prob>>,
               confidence |-> <<loc[t].conf>>,
               fraud_rate |-> Rat(total_fraud, total_processed)]
    /\ hist' = Append(hist, <<loc[t].prob, loc[t].pred>>)
    /\ ncalls' = ncalls + 1
    /\ Go(t, "done")
    /\ UNCHANGED <<detvars, ncalibrate, since_check, calib, last, loc, d0, xvars>>

NextThreads ==
    \/ \E s \in Scores : RunAlone(s)
    \/ \E t \in Threads, s \in Scores : Spawn(t, s)
    \/ \E t \in Threads :
          \/ T56(t) \/ T59(t) \/ T61(t) \/ T64(t) \/ T92(t) \/ T97(t) \/ T99(t)
          \/ T68(t) \/ T71(t) \/ T74(t) \/ T74w(t) \/ T75(t) \/ T75w(t)
          \/ T79(t) \/ T80(t) \/ T83(t) \/ T112(t) \/ T86(t)

SpecThreads == InitThreads /\ [][NextThreads]_vars

\* the detector after the scores ss have been processed one call after the other
RECURSIVE SeqFeed(_, _)
SeqFeed(d, ss) ==
    IF ss = <<>> THEN d
    ELSE SeqFeed(PredictWithConfidence(d, <<Head(ss)>>).det, Tail(ss))

\* C1: once every worker thread has returned, the detector is in the state that processing
\* the threads' items one after the other, in some order, leads to.
C1_Serializable ==
    (\A t \in Threads : pc[t] = "done") =>
        \E f \in [Threads -> Threads] :
            /\ \A a, b \in Threads : f[a] = f[b] => a = b
            /\ Det = SeqFeed(d0, [i \in Threads |-> loc[f[i]].prob])

\* C10: the counters never decrease, and whenever no call is in progress total_processed is
\* the number of items of the completed calls, total_fraud the number of those whose returned
\* decision was 1, and 0 <= total_fraud <= total_processed.
C10_Counters ==
    [][/\ total_processed' >= total_processed
       /\ total_fraud' >= total_fraud
       /\ Quiet' =>
            /\ total_processed' = Len(hist')
            /\ total_fraud' = Cardinality({i \in 1..Len(hist') : hist'[i][2] = 1})
            /\ 0 <= total_fraud' /\ total_fraud' <= total_processed']_vars

(***************************************************************************)
(* Properties of the sequential detector.                                  *)
(***************************************************************************)
HistScores(a, b) == [i \in 1..(b - a + 1) |-> hist[a + i - 1][1]]

\* C2 as claimed: fed one item per call, a fresh detector stays uncalibrated on the base
\* threshold for the first N-1 items, and after the N-th it is calibrated and its active
\* threshold is the target percentile of those N scores.
C2_CalibratesOnNth ==
    /\ Len(hist) < calibration_size =>
          ~is_calibrated /\ adaptive_threshold = FromInt(base_threshold)
    /\ Len(hist) = calibration_size =>
          /\ is_calibrated
          /\ adaptive_threshold = Percentile(HistScores(1, calibration_size), TARGET_PERCENT)

\* C2 amended: ... after the N-th item it is calibrated, the N-th item was decided with the
\* target percentile of those N scores, and that percentile is the active threshold unless
\* N is a multiple of 100 (then the call's own recalibration check may have blended it).
C2_CalibratesOnNthUnlessCheck ==
    /\ Len(hist) < calibration_size =>
          ~is_calibrated /\ adaptive_threshold = FromInt(base_threshold)
    /\ Len(hist) = calibration_size =>
          LET p == Percentile(HistScores(1, calibration_size), TARGET_PERCENT)
          IN  /\ is_calibrated
              /\ last.ran_calibrate
              /\ hist[calibration_size][2] =
                    (IF hist[calibration_size][1] * p.d < p.n THEN 1 ELSE 0)
              /\ calibration_size % 100 # 0 => adaptive_threshold = p

\* the N-th item has just calibrated a detector fed with differing scores
C2_Witness ==
    /\ Len(hist) = calibration_size
    /\ is_calibrated
    /\ \E i, j \in 1..Len(hist) : hist[i][1] # hist[j][1]
    /\ adaptive_threshold = Percentile(HistScores(1, calibration_size), TARGET_PERCENT)
    /\ adaptive_threshold # FromInt(base_threshold)

\* C3: once is_calibrated is true it stays true, _calibrate does not run again and the
\* calibration buffer is not touched again; _recalibrate runs only on a calibrated detector.
C3_CalibratedForGood ==
    [][/\ is_calibrated =>
            /\ is_calibrated'
            /\ ncalibrate' = ncalibrate
            /\ ~last'.ran_calibrate
            /\ calibration_probs' = calibration_probs
       /\ last'.ran_recalibrate => is_calibrated'
       /\ ncalibrate' <= 1]_vars

\* a recalibration has run on a detector that was calibrated by an earlier call
C3_Witness ==
    /\ is_calibrated
    /\ last.ran_recalibrate
    /\ ~last.ran_calibrate
    /\ Len(hist) > calib.items

C5_CheckEvery100 == since_check <= RECAL_EVERY

\* C6: a completed call leaves the threshold it decided with (the old threshold, or the
\* calibrated one when the call calibrated) unless its recalibration check finds at least 50
\* window samples and a flag rate more than 0.10 from the target; then the new threshold is
\* 0.7 x that threshold + 0.3 x the target percentile of the window.  A call that raises
\* changes nothing.
C6_Decided ==
    IF is_calibrated THEN adaptive_threshold
    ELSE IF is_calibrated' THEN Percentile(calibration_probs', TARGET_PERCENT)
    ELSE adaptive_threshold

C6_Adjusts ==
    /\ hist' # hist
    /\ is_calibrated'
    /\ total_processed' % 100 = 0
    /\ Len(recent_probs') >= 50
    /\ LET k == Cardinality({i \in 1..Len(recent_predictions') : recent_predictions'[i] = 1})
           n == Len(recent_predictions')
       IN  100 * k - 15 * n > 10 * n \/ 15 * n - 100 * k > 10 * n

C6_ThresholdChanges ==
    [][adaptive_threshold' =
          IF C6_Adjusts
          THEN LET c == Percentile(recent_probs', TARGET_PERCENT)
               IN  Rat(7 * C6_Decided.n * c.d + 3 * c.n * C6_Decided.d,
                       10 * C6_Decided.d * c.d)
          ELSE C6_Decided]_vars

\* a recalibration check has moved the threshold
C6_Witness ==
    /\ last.ran_recalibrate
    /\ adaptive_threshold # last.used_threshold

\* C9: the two rolling windows have the same length, min(100, items processed), and hold
\* the scores and the decisions of the most recent items, in arrival order, entry for entry.
C9_Windows ==
    LET n   == Len(recent_probs)
        off == Len(hist) - n
    IN  /\ n = Len(recent_predictions)
        /\ n = (IF Len(hist) < 100 THEN Len(hist) ELSE 100)
        /\ \A i \in 1..n : /\ recent_probs[i] = hist[off + i][1]
                           /\ recent_predictions[i] = hist[off + i][2]

\* the windows have evicted, and hold flagged and unflagged items
C9_Witness ==
    /\ Len(hist) > RECENT_MAXLEN
    /\ \E i, j \in 1..Len(recent_predictions) :
          /\ recent_predictions[i] = 1 /\ recent_predictions[j] = 0
          /\ recent_probs[i] # recent_probs[j]

(***************************************************************************)
(* Properties of the pure methods.                                         *)
(***************************************************************************)
\* C7: should_flag returns true exactly when the probability is strictly below the active
\* threshold and the confidence is at least min_confidence, and it changes no detector state.
C7_ShouldFlag ==
    [][ret'.op = "should_flag" =>
          /\ ret'.value =
                (/\ ret'.probability * adaptive_threshold.d < adaptive_threshold.n
                 /\ ret'.confidence.hi * ret'.min_confidence.lo
                        >= ret'.min_confidence.hi * ret'.confidence.lo)
          /\ ret'.probability * adaptive_threshold.d = adaptive_threshold.n
                => ret'.value = FALSE
          /\ UNCHANGED detvars]_vars

\* should_flag has refused a score equal to the threshold although the confidence passed
C7_Witness ==
    /\ ret.op = "should_flag"
    /\ is_calibrated
    /\ ret.probability * adaptive_threshold.d = adaptive_threshold.n
    /\ ret.confidence = ConfOne
    /\ ret.min_confidence # ConfOne
    /\ ret.value = FALSE

\* the two sides of a distance, as a pair <<larger, smaller>>
C8_Fold(a, b) == IF a >= b THEN <<a, b>> ELSE <<b, a>>

\* distance x is at most distance y
C8_NoFurther(x, y) ==
    IF y[2] = 0 THEN TRUE
    ELSE IF x[2] = 0 THEN FALSE
    ELSE x[1] * y[2] <= y[1] * x[2]

\* log10 distance of score and threshold, epsilon left out
C8_Dist(p) == C8_Fold(p * adaptive_threshold.d, adaptive_threshold.n)

\* log10 distance of score + 1e-20 and threshold + 1e-20
C8_ShiftedDist(p) ==
    C8_Fold((p + 1) * adaptive_threshold.d, adaptive_threshold.n + adaptive_threshold.d)

C8_InRange(c) == c.hi >= c.lo /\ c.lo > 0 /\ c.hi <= 100 * c.lo

\* C8 as claimed: the confidence is in [0, 1], is 0 when the score equals the threshold, is 1
\* when the score is at least two orders of magnitude from the threshold, and does not
\* decrease when the log10 distance of score and threshold grows.
C8_ConfidenceByDistance ==
    ret.op = "_calculate_confidence" =>
        /\ \A i \in 1..2 :
              /\ C8_InRange(ret.value[i])
              /\ C8_Dist(ret.probabilities[i])[1] = C8_Dist(ret.probabilities[i])[2]
                    => ret.value[i] = ConfZero
              /\ C8_NoFurther(<<100, 1>>, C8_Dist(ret.probabilities[i]))
                    => ret.value[i] = ConfOne
        /\ C8_NoFurther(C8_Dist(ret.probabilities[1]), C8_Dist(ret.probabilities[2]))
              => ConfLeq(ret.value[1], ret.value[2])

\* C8 amended: the same with the distance taken between score + 1e-20 and threshold + 1e-20,
\* as the code computes it.
C8_ConfidenceByShiftedDistance ==
    ret.op = "_calculate_confidence" =>
        /\ \A i \in 1..2 :
              /\ C8_InRange(ret.value[i])
              /\ C8_Dist(ret.probabilities[i])[1] = C8_Dist(ret.probabilities[i])[2]
                    => ret.value[i] = ConfZero
              /\ C8_NoFurther(<<100, 1>>, C8_ShiftedDist(ret.probabilities[i]))
                    <=> ret.value[i] = ConfOne
        /\ C8_NoFurther(C8_ShiftedDist(ret.probabilities[1]),
                        C8_ShiftedDist(ret.probabilities[2]))
              => ConfLeq(ret.value[1], ret.value[2])

\* on a calibrated detector: one score on the threshold, one saturated
C8_Witness ==
    /\ ret.op = "_calculate_confidence"
    /\ is_calibrated
    /\ ret.value[1] = ConfZero
    /\ ret.value[2] = ConfOne
    /\ ret.probabilities[2] > 0

(***************************************************************************)
(* backend/anomaly_detection.py: the threshold optimizer.  Scores are      *)
(* integers; a candidate threshold min + i * (max - min) / 1000 is an      *)
(* exact rational.  np.arange(min, max, stepsize) yields the candidates    *)
(* i = 0 .. 999 and never max itself; with stepsize = 0 (all scores equal) *)
(* it raises ValueError, as np.max does on an empty array.                 *)
(***************************************************************************)
GRID_STEPS == 1000

MaxRows == 3

OptScores == {0, 1, 999, 1000}

SeqMin(a) == CHOOSE v \in {a[k] : k \in 1..Len(a)} : \A k \in 1..Len(a) : v <= a[k]

SeqMax(a) == CHOOSE v \in {a[k] : k \in 1..Len(a)} : \A k \in 1..Len(a) : a[k] <= v

\* element i (from 0) of epsilons
Epsilon(probs, i) ==
    Rat(GRID_STEPS * SeqMin(probs) + i * (SeqMax(probs) - SeqMin(probs)), GRID_STEPS)

\* (probabilities < epsilon).astype(int)
PredictBelow(probs, eps) ==
    [k \in 1..Len(probs) |-> IF RatLess(FromInt(probs[k]), eps) THEN 1 ELSE 0]

CheckPredictions(predictions, truth) ==
    [fp |-> Cardinality({k \in 1..Len(truth) : predictions[k] = 1 /\ truth[k] = 0}),
     fn |-> Cardinality({k \in 1..Len(truth) : predictions[k] = 0 /\ truth[k] = 1}),
     tp |-> Cardinality({k \in 1..Len(truth) : predictions[k] = 1 /\ truth[k] = 1})]

Metrics(tp, fp, fn) ==
    LET precision == IF tp + fp = 0 THEN FromInt(0) ELSE Rat(tp, tp + fp)
        recall    == IF tp + fn = 0 THEN FromInt(0) ELSE Rat(tp, tp + fn)
        F1        == IF precision.n = 0 /\ recall.n = 0 THEN FromInt(0)
                     ELSE Rat(2 * precision.n * recall.n,
                              precision.n * recall.d + recall.n * precision.d)
    IN  [precision |-> precision, recall |-> recall, F1 |-> F1]

\* lines 148-151
NoBest == [best_epsilon |-> FromInt(0), best_F1 |-> FromInt(0),
           associated_precision |-> FromInt(0), associated_recall |-> FromInt(0)]

\* the body of the loop, lines 158-174
ScanStep(truth, probs, best, i) ==
    LET c == CheckPredictions(PredictBelow(probs, Epsilon(probs, i)), truth)
        r == Metrics(c.tp, c.fp, c.fn)
    IN  IF c.tp + c.fp + c.fn = 0 THEN best
        ELSE IF RatLess(best.best_F1, r.F1)
             THEN [best_epsilon |-> Epsilon(probs, i), best_F1 |-> r.F1,
                   associated_precision |-> r.precision, associated_recall |-> r.recall]
             ELSE best

\* the loop over epsilons[lo .. hi] in ascending order, starting from best
RECURSIVE Scan(_, _, _, _, _)
Scan(truth, probs, best, lo, hi) ==
    IF lo > hi THEN best
    ELSE IF lo = hi THEN ScanStep(truth, probs, best, lo)
    ELSE LET mid == (lo + hi) \div 2
         IN  CHOOSE r \in {Scan(truth, probs, left, mid + 1, hi) :
                              left \in {Scan(truth, probs, best, lo, mid)}} : TRUE

RaiseError == [op |-> "raise"]

OptimalThreshold(truth, probs) ==
    IF Len(probs) = 0 \/ SeqMin(probs) = SeqMax(probs) THEN RaiseError
    ELSE LET best == Scan(truth, probs, NoBest, 0, GRID_STEPS - 1)
         IN  [op |-> "optimal_threshold", best_epsilon |-> best.best_epsilon,
              best_F1 |-> best.best_F1,
              associated_precision |-> best.associated_precision,
              associated_recall |-> best.associated_recall]

InitOpt ==
    /\ InitAdaptive({1}, BaseThresholds)
    /\ InitFraudDetector
    /\ InitLive
    /\ InitService
    /\ \E m \in 0..MaxRows :
          /\ truths \in [1..m -> {0, 1}]
          /\ probabilities \in [1..m -> OptScores]

CallOptimalThreshold ==
    /\ ret = NoCall
    /\ ret' = OptimalThreshold(truths, probabilities)
    /\ UNCHANGED <<detvars, hist, ncalls, ncalibrate, since_check, calib, last, tvars, optvars,
                   svcvars, fdvars, livevars>>

NextOpt == CallOptimalThreshold

SpecOpt == InitOpt /\ [][NextOpt]_vars

\* what the loop computes at candidate i for the call's arguments
MetricsAt(i) ==
    LET c == CheckPredictions(PredictBelow(probabilities, Epsilon(probabilities, i)), truths)
    IN  Metrics(c.tp, c.fp, c.fn)

\* C11: a completed optimal_threshold call returns a candidate of its grid, the F1, precision
\* and recall computed at that candidate, no candidate has a larger F1 and no earlier
\* candidate has an equal one.
C11_FirstMaximum ==
    ret.op = "optimal_threshold" =>
        \E i \in 0..(GRID_STEPS - 1) :
            /\ ret.best_epsilon = Epsilon(probabilities, i)
            /\ ret.best_F1 = MetricsAt(i).F1
            /\ ret.associated_precision = MetricsAt(i).precision
            /\ ret.associated_recall = MetricsAt(i).recall
            /\ \A j \in 0..(GRID_STEPS - 1) : RatLeq(MetricsAt(j).F1, ret.best_F1)
            /\ \A j \in 0..(i - 1) : RatLess(MetricsAt(j).F1, ret.best_F1)

AllScoresEqual == Len(probabilities) > 0 /\ SeqMin(probabilities) = SeqMax(probabilities)

\* C12: when all scores are identical the call does not raise, and what it returns is the
\* result of evaluating the single candidate equal to that score.
C12_SingleCandidate ==
    (AllScoresEqual /\ ret # NoCall) =>
        /\ ret.op = "optimal_threshold"
        /\ LET best == ScanStep(truths, probabilities, NoBest, 0)
           IN  /\ ret.best_epsilon = best.best_epsilon
               /\ ret.best_F1 = best.best_F1

FraudRows == {k \in 1..Len(truths) : truths[k] = 1}

LegitRows == {k \in 1..Len(truths) : truths[k] = 0}

\* at least one fraud row and one legitimate row, every fraud score below every legitimate
\* score, and the gap between the clusters at least (max - min) / 1000 wide
Separable ==
    /\ FraudRows # {}
    /\ LegitRows # {}
    /\ \A f \in FraudRows, l \in LegitRows :
          /\ probabilities[f] < probabilities[l]
          /\ GRID_STEPS * (probabilities[l] - probabilities[f])
                >= SeqMax(probabilities) - SeqMin(probabilities)

\* C13: on separable input the call returns F1 = precision = recall = 1 and a threshold
\* strictly above every fraud score and at or below every legitimate score.
C13_SeparableF1 ==
    (Separable /\ ret # NoCall) =>
        /\ ret.op = "optimal_threshold"
        /\ ret.best_F1 = FromInt(1)
        /\ ret.associated_precision = FromInt(1)
        /\ ret.associated_recall = FromInt(1)
        /\ \A f \in FraudRows : RatLess(FromInt(probabilities[f]), ret.best_epsilon)
        /\ \A l \in LegitRows : RatLeq(ret.best_epsilon, FromInt(probabilities[l]))

(***************************************************************************)
(* backend/feature_engineering.py.  A data frame is a record               *)
(*   [required, has, rows]:                                                *)
(* required says whether the seven required columns are there, has is the  *)
(* set of the other columns it carries ("is_fraud", "dob", "foo" - some    *)
(* numeric column, "category" - some string column, "ssn" - numeric), and  *)
(* each row gives amt, age (what extract_features derives from dob), foo,  *)
(* category, ssn and is_fraud; the value of a column the frame does not    *)
(* carry is not looked at.  Of the features derived from the required      *)
(* columns only amt_log is followed; distance, hour, day_of_week, is_night *)
(* and is_weekend are built and aligned the same way.  Values are never    *)
(* missing.  Rows are given in the order of their time stamps.             *)
(***************************************************************************)
\* Python's order on the category strings of the model
CatOrder == <<"MISSING", "UNKNOWN", "food", "gas", "zoo">>

\* sorted(values + ['MISSING', 'UNKNOWN']): LabelEncoder.fit(unique_values).classes_
FitClasses(values) ==
    SelectSeq(CatOrder, LAMBDA c : c \in values \cup {"MISSING", "UNKNOWN"})

\* LabelEncoder.transform of one value known to the encoder
Transform(classes, v) == (CHOOSE i \in 1..Len(classes) : classes[i] = v) - 1

\* encode_categorical_features: the encoders in use and whether "category" survives
EncodeCategorical(df, encs) ==
    IF encs = None
    THEN [encoders |-> IF "category" \in df.has
                       THEN [c \in {"category"} |->
                               FitClasses({df.rows[r].category : r \in 1..Len(df.rows)})]
                       ELSE EmptyDict,
          keeps |-> "category" \in df.has]
    ELSE [encoders |-> encs,
          keeps |-> "category" \in df.has /\ "category" \in DOMAIN encs]

\* the encoded value of a row's category
Encoded(classes, v) ==
    Transform(classes, IF \E i \in 1..Len(classes) : classes[i] = v THEN v ELSE "UNKNOWN")

ColumnOrder ==
    <<"ssn", "amt", "category", "foo", "is_fraud", "unix_time", "amt_log", "age",
      "trans_count", "time_diff", "user_avg_amt", "amt_deviation">>

\* add_temporal_features: df.sort_values(['ssn', 'unix_time']); the result lists the
\* positions of the input rows in their new order
SortOrder(df) ==
    IF "ssn" \in df.has
    THEN LET n == Len(df.rows)
             pos(i) == 1 + Cardinality({j \in 1..n :
                            \/ df.rows[j].ssn < df.rows[i].ssn
                            \/ df.rows[j].ssn = df.rows[i].ssn /\ j < i})
         IN  [p \in 1..n |-> CHOOSE i \in 1..n : pos(i) = p]
    ELSE [p \in 1..Len(df.rows) |-> p]

\* extract_features followed by add_temporal_features: the numeric columns of df_features
\* in their order, the encoders, and the rows in their new order
ExtractFeatures(df, encs) ==
    LET e == EncodeCategorical(df, encs)
        present(c) ==
            \/ c \in {"amt", "unix_time", "amt_log"}
            \/ c \in {"ssn", "foo", "is_fraud"} /\ c \in df.has
            \/ c = "category" /\ e.keeps
            \/ c = "age" /\ "dob" \in df.has
            \/ c \in {"trans_count", "time_diff", "user_avg_amt", "amt_deviation"}
                 /\ "ssn" \in df.has
    IN  [numeric_cols |-> SelectSeq(ColumnOrder, present),
         encoders |-> e.encoders,
         order |-> SortOrder(df)]

ExcludeCols ==
    {"is_fraud", "cc_num", "acct_num", "ssn", "unix_time", "zip", "city", "job", "dob",
     "trans_time", "trans_date", "lat", "long", "merch_lat", "merch_long", "city_pop",
     "city_pop_capped", "amt"}

\* [col for col in numeric_cols if col not in exclude_cols]
AvailableFeatures(numeric_cols) == SelectSeq(numeric_cols, LAMBDA c : c \notin ExcludeCols)

\* the value of a feature column in a row; the per-customer features are never part of a
\* feature matrix here because no training frame carries ssn
ValueOf(row, col, encs) ==
    CASE col = "amt_log" -> row.amt
      [] col = "age" -> row.age
      [] col = "foo" -> row.foo
      [] col = "category" -> Encoded(encs["category"], row.category)
      [] OTHER -> 0

(***************************************************************************)
(* Numbers of the Gaussian model.  Feature values are small integers and   *)
(* every feature matrix of the model has two columns.  Means and           *)
(* covariances are kept exactly, as integer sums with their common         *)
(* denominator.  A standardised value (x - mean) / std is represented by   *)
(* the x it stands for: the squared Mahalanobis distance of a row does not *)
(* depend on the affine change of coordinates, and in every state of the   *)
(* model normalization_mean/std, mean_values and covariance_matrix stem    *)
(* from one training.  normalization_std keeps the squares.  The density   *)
(* normalizer * exp(-d2 / 2) is represented by DENSITY_SCALE / (1 + d2),   *)
(* rounded down: like the density it is positive, finite and decreasing in *)
(* the distance d2, which is all the decisions of the model depend on.     *)
(***************************************************************************)
DENSITY_SCALE == 1000

NaN == [nan |-> TRUE]

RECURSIVE SeqSum(_)
SeqSum(a) == IF a = <<>> THEN 0 ELSE Head(a) + SeqSum(Tail(a))

ColSum(X, c) == SeqSum([r \in 1..Len(X) |-> X[r][c]])

ColProdSum(X, c, e) == SeqSum([r \in 1..Len(X) |-> X[r][c] * X[r][e]])

NFeatures(X) == Len(X[1])

\* normalize_features: mean, std with std[std == 0] = 1
NormalizeFeatures(X) ==
    LET m == Len(X)
        sq(c) == m * ColProdSum(X, c, c) - ColSum(X, c) * ColSum(X, c)
    IN  [mean |-> [sum |-> [c \in 1..NFeatures(X) |-> ColSum(X, c)], m |-> m],
         std  |-> [sq |-> [c \in 1..NFeatures(X) |-> IF sq(c) = 0 THEN m * m ELSE sq(c)],
                   m |-> m]]

\* estimate_gaussian: np.mean(X, axis=0), np.cov(X, rowvar=False); with fewer than two
\* rows np.cov divides by zero and the matrix is NaN, with no row the mean is NaN too
EstimateGaussian(X, n) ==
    LET k == Len(X)
    IN  [mean_values |->
            IF k = 0 THEN NaN ELSE [sum |-> [c \in 1..n |-> ColSum(X, c)], k |-> k],
         covariance_matrix |->
            IF k <= 1 THEN NaN
            ELSE [c |-> [a \in 1..n |-> [b \in 1..n |->
                            k * ColProdSum(X, a, b) - ColSum(X, a) * ColSum(X, b)]],
                  k |-> k]]

Det2(c) == c[1][1] * c[2][2] - c[1][2] * c[2][1]

\* scipy.linalg.inv: raises on NaN entries and on a singular matrix
Invertible(cov) == cov # NaN /\ Det2(cov.c) # 0

\* the density of one row x
Density(x, mean, cov) ==
    LET k == cov.k
        v == [c \in 1..2 |-> k * x[c] - mean.sum[c]]
        q == v[1] * v[1] * cov.c[2][2] - 2 * v[1] * v[2] * cov.c[1][2]
               + v[2] * v[2] * cov.c[1][1]
        num == (k - 1) * q
        den == k * Det2(cov.c)
    IN  (DENSITY_SCALE * den) \div (den + num)

\* multivariate_gaussian
MultivariateGaussian(X, mean, cov) ==
    IF ~Invertible(cov) THEN RaiseError
    ELSE [op |-> "ok", probabilities |-> [r \in 1..Len(X) |-> Density(X[r], mean, cov)]]

(***************************************************************************)
(* backend/fraud_detector.py.  training_columns is None or [cols |-> the   *)
(* list]; every method is an operator from the detector's fields (and its  *)
(* arguments) to the fields after the call and what the call returns.      *)
(***************************************************************************)
Range(a) == {a[i] : i \in 1..Len(a)}

\* mutant: the alignment loop of predict takes a stale value instead of 0
FeatureMatrixNoFill(df, cols, e) ==
    [p \in 1..Len(df.rows) |->
        [c \in 1..Len(cols) |->
            IF cols[c] = "category" /\ cols[c] \notin Range(e.numeric_cols) THEN 0
            ELSE ValueOf(df.rows[e.order[p]], cols[c], e.encoders)]]

\* df_features[cols].values after the alignment loop of predict: a column that
\* df_features lacks has been added with zeros
FeatureMatrix(df, cols, e) ==
    [p \in 1..Len(df.rows) |->
        [c \in 1..Len(cols) |->
            IF cols[c] \in Range(e.numeric_cols)
            THEN ValueOf(df.rows[e.order[p]], cols[c], e.encoders)
            ELSE 0]]

\* X[y == v]
RECURSIVE RowsWhere(_, _, _)
RowsWhere(X, y, v) ==
    IF X = <<>> THEN <<>>
    ELSE (IF Head(y) = v THEN <<Head(X)>> ELSE <<>>) \o RowsWhere(Tail(X), Tail(y), v)

\* train, lines 61-132: the fields it assigns, in the order it assigns them, up to the
\* statement that raises or to the end, and what it returns
TrainAssignments(df) ==
    IF "is_fraud" \notin df.has \/ ~df.required
    THEN [assigned |-> EmptyDict, ret |-> RaiseError]
    ELSE
    LET e == ExtractFeatures(df, None)
        cols == AvailableFeatures(e.numeric_cols)
        X == FeatureMatrix(df, cols, e)
        y == [p \in 1..Len(df.rows) |-> df.rows[e.order[p]].is_fraud]
        nrm == NormalizeFeatures(X)
        g == EstimateGaussian(RowsWhere(X, y, 0), Len(cols))
        a4 == [encoders |-> e.encoders,
               training_columns |-> [cols |-> cols],
               normalization_mean |-> nrm.mean,
               normalization_std |-> nrm.std,
               mean_values |-> g.mean_values,
               covariance_matrix |-> g.covariance_matrix]
        pr == MultivariateGaussian(X, g.mean_values, g.covariance_matrix)
    IN  IF pr = RaiseError THEN [assigned |-> a4, ret |-> RaiseError]
        \* line 110: probabilities[y == 1].min() of no row
        ELSE IF \A p \in 1..Len(y) : y[p] = 0 THEN [assigned |-> a4, ret |-> RaiseError]
        ELSE LET o == OptimalThreshold(y, pr.probabilities)
             IN  IF o = RaiseError THEN [assigned |-> a4, ret |-> RaiseError]
                 ELSE LET mt == [F1 |-> o.best_F1, precision |-> o.associated_precision,
                                 recall |-> o.associated_recall,
                                 threshold |-> o.best_epsilon,
                                 n_features |-> Len(cols), n_samples |-> Len(df.rows),
                                 fraud_rate |-> Rat(SeqSum(y), Len(y))]
                      IN  [assigned |-> [encoders |-> e.encoders,
                                         training_columns |-> [cols |-> cols],
                                         normalization_mean |-> nrm.mean,
                                         normalization_std |-> nrm.std,
                                         mean_values |-> g.mean_values,
                                         covariance_matrix |-> g.covariance_matrix,
                                         threshold |-> o.best_epsilon,
                                         is_trained |-> TRUE,
                                         metrics |-> mt],
                           ret |-> [op |-> "train", metrics |-> mt]]

\* the fields d with the assignments a made
Assign(d, a) == [f \in DOMAIN d |-> IF f \in DOMAIN a THEN a[f] ELSE d[f]]

\* FraudDetector.predict: it assigns no field
FraudDetectorPredict(d, df) ==
    IF ~d.is_trained \/ ~df.required \/ d.training_columns = None \/ Len(df.rows) = 0
    THEN RaiseError
    ELSE LET e == ExtractFeatures(df, d.encoders)
             cols == d.training_columns.cols
             X == FeatureMatrix(df, cols, e)
             pr == MultivariateGaussian(X, d.mean_values, d.covariance_matrix)
         IN  IF pr = RaiseError THEN RaiseError
             ELSE [op |-> "predict",
                   predictions |-> PredictBelow(pr.probabilities, d.threshold),
                   probabilities |-> pr.probabilities,
                   columns |-> cols,
                   X |-> X,
                   order |-> e.order]

\* FraudDetector.evaluate: predict, then the confusion counts against df['is_fraud'],
\* the labels in the order of the input rows
FraudDetectorEvaluate(d, df) ==
    IF "is_fraud" \notin df.has THEN RaiseError
    ELSE LET r == FraudDetectorPredict(d, df)
         IN  IF r = RaiseError THEN RaiseError
             ELSE LET y_true == [p \in 1..Len(df.rows) |-> df.rows[p].is_fraud]
                      c == CheckPredictions(r.predictions, y_true)
                      tn == Cardinality({p \in 1..Len(y_true) :
                                            r.predictions[p] = 0 /\ y_true[p] = 0})
                      mt == Metrics(c.tp, c.fp, c.fn)
                  IN  [op |-> "evaluate",
                       accuracy |-> Rat(c.tp + tn, Len(y_true)),
                       precision |-> mt.precision, recall |-> mt.recall, F1 |-> mt.F1,
                       true_positives |-> c.tp, false_positives |-> c.fp,
                       true_negatives |-> tn, false_negatives |-> c.fn,
                       n_samples |-> Len(df.rows)]

\* FraudDetector.predict_single: predict on the frame made of the one transaction
FraudDetectorPredictSingle(d, df) ==
    IF ~d.is_trained THEN RaiseError
    ELSE LET r == FraudDetectorPredict(d, df)
         IN  IF r = RaiseError THEN RaiseError
             ELSE [op |-> "predict_single", prediction |-> r.predictions[1],
                   probability |-> r.probabilities[1], threshold |-> d.threshold]

CorruptFile == [kind |-> "corrupt"]

\* mutant: the artifact is written without the encoders
ModelDataWithoutEncoders(d) ==
    [kind |-> "pickle",
     data |-> [mean_values |-> d.mean_values,
               covariance_matrix |-> d.covariance_matrix,
               threshold |-> d.threshold,
               normalization_mean |-> d.normalization_mean,
               normalization_std |-> d.normalization_std,
               training_columns |-> d.training_columns,
               feature_columns |-> d.feature_columns,
               metrics |-> d.metrics,
               is_trained |-> d.is_trained]]

\* save_model, lines 297-311: the dict that is pickled
ModelData(d) ==
    [kind |-> "pickle",
     data |-> [mean_values |-> d.mean_values,
               covariance_matrix |-> d.covariance_matrix,
               threshold |-> d.threshold,
               normalization_mean |-> d.normalization_mean,
               normalization_std |-> d.normalization_std,
               encoders |-> d.encoders,
               training_columns |-> d.training_columns,
               feature_columns |-> d.feature_columns,
               metrics |-> d.metrics,
               is_trained |-> d.is_trained]]

\* mutant: save_model without the check of lines 294-295
SaveModelUnchecked(d, file) == [file |-> ModelData(d), ret |-> [op |-> "save_model"]]

\* save_model: the file after the call and what the call returns
FraudDetectorSaveModel(d, file) ==
    IF ~d.is_trained THEN [file |-> file, ret |-> RaiseError]
    ELSE [file |-> ModelData(d), ret |-> [op |-> "save_model"]]

\* load_model, lines 325-334: the assignments in their order; .get has a default
LoadSteps ==
    <<[key |-> "mean_values", get |-> FALSE],
      [key |-> "covariance_matrix", get |-> FALSE],
      [key |-> "threshold", get |-> FALSE],
      [key |-> "normalization_mean", get |-> FALSE],
      [key |-> "normalization_std", get |-> FALSE],
      [key |-> "encoders", get |-> TRUE],
      [key |-> "training_columns", get |-> TRUE],
      [key |-> "feature_columns", get |-> FALSE],
      [key |-> "metrics", get |-> FALSE],
      [key |-> "is_trained", get |-> FALSE]>>

\* the assignments from step i on; a missing key raises KeyError and ends them
RECURSIVE LoadFrom(_, _, _)
LoadFrom(d, data, i) ==
    IF i > Len(LoadSteps) THEN [fd |-> d, raised |-> FALSE]
    ELSE LET k == LoadSteps[i].key
         IN  IF k \in DOMAIN data
             THEN LoadFrom([d EXCEPT ![k] = data[k]], data, i + 1)
             ELSE IF LoadSteps[i].get
                  THEN LoadFrom([d EXCEPT ![k] = None], data, i + 1)
                  ELSE [fd |-> d, raised |-> TRUE]

\* load_model: open and unpickle (lines 322-323), assign, print the metrics (lines 337-339:
\* formatting the default 'N/A' with .4f raises)
FraudDetectorLoadModel(d, file) ==
    IF file.kind # "pickle" THEN [fd |-> d, ret |-> RaiseError]
    ELSE LET r == LoadFrom(d, file.data, 1)
         IN  IF r.raised THEN [fd |-> r.fd, ret |-> RaiseError]
             ELSE IF {"F1", "precision", "recall"} \subseteq DOMAIN r.fd.metrics
                  THEN [fd |-> r.fd, ret |-> [op |-> "load_model"]]
                  ELSE [fd |-> r.fd, ret |-> RaiseError]

(***************************************************************************)
(* The frames the detector is trained on and asked about.                  *)
(***************************************************************************)
MaxFdCalls == 3

Row(amt, age, foo, category, ssn, y) ==
    [amt |-> amt, age |-> age, foo |-> foo, category |-> category, ssn |-> ssn,
     is_fraud |-> y]

Frame(has, rows) == [required |-> TRUE, has |-> has, rows |-> rows]

\* three legitimate rows and one fraud row far away; features amt_log and age
GoodAge ==
    Frame({"is_fraud", "dob"},
          <<Row(0, 0, 0, "food", 1, 0), Row(0, 2, 0, "food", 1, 0),
            Row(2, 0, 0, "food", 1, 0), Row(6, 6, 0, "food", 1, 1)>>)

\* the same with a string column; features category and amt_log
GoodCat ==
    Frame({"is_fraud", "category"},
          <<Row(0, 0, 0, "food", 1, 0), Row(0, 0, 0, "gas", 1, 0),
            Row(2, 0, 0, "food", 1, 0), Row(9, 0, 0, "gas", 1, 1)>>)

\* the numeric column foo is 0 in every row; features foo and amt_log
ZeroVariance ==
    Frame({"is_fraud", "foo"},
          <<Row(0, 0, 0, "food", 1, 0), Row(1, 0, 0, "food", 1, 0),
            Row(2, 0, 0, "food", 1, 0), Row(9, 0, 0, "food", 1, 1)>>)

NoFraudRows ==
    Frame({"is_fraud", "dob"},
          <<Row(0, 0, 0, "food", 1, 0), Row(0, 4, 0, "food", 1, 0),
            Row(4, 0, 0, "food", 1, 0)>>)

NoLegitRows ==
    Frame({"is_fraud", "dob"},
          <<Row(0, 0, 0, "food", 1, 1), Row(0, 2, 0, "food", 1, 1)>>)

\* the fraud row equals a legitimate row: all densities are equal
EqualScores ==
    Frame({"is_fraud", "dob"},
          <<Row(0, 0, 0, "food", 1, 0), Row(0, 2, 0, "food", 1, 0),
            Row(2, 0, 0, "food", 1, 0), Row(0, 0, 0, "food", 1, 1)>>)

NoLabel == Frame({"dob"}, <<Row(0, 0, 0, "food", 1, 0), Row(6, 6, 0, "food", 1, 0)>>)

NoRequired == [GoodAge EXCEPT !.required = FALSE]

TrainFrames ==
    {GoodAge, GoodCat, ZeroVariance, NoFraudRows, NoLegitRows, EqualScores, NoLabel,
     NoRequired}

\* held-out rows: with the optional column dob, without it and with an extra column, with
\* extra columns and a category not seen in training, with a customer column, with labels,
\* without a required column
PredictFrames ==
    {Frame({"dob"}, <<Row(0, 0, 0, "food", 1, 0), Row(6, 6, 0, "food", 1, 0)>>),
     Frame({"foo"}, <<Row(0, 0, 3, "food", 1, 0), Row(6, 6, 5, "food", 1, 0)>>),
     Frame({"dob", "foo", "category"},
           <<Row(6, 6, 5, "zoo", 1, 0), Row(2, 0, 7, "gas", 1, 0)>>),
     Frame({"dob", "ssn"}, <<Row(6, 6, 0, "food", 2, 0), Row(0, 0, 0, "food", 1, 0)>>),
     Frame({"dob", "is_fraud"}, <<Row(0, 2, 0, "food", 1, 0), Row(6, 6, 0, "food", 1, 1)>>),
     Frame({"dob", "ssn", "is_fraud"},
           <<Row(6, 6, 0, "food", 2, 1), Row(0, 0, 0, "food", 1, 0)>>),
     [Frame({"dob"}, <<Row(0, 0, 0, "food", 1, 0)>>) EXCEPT !.required = FALSE]}

\* single transactions for predict_single
Transactions ==
    {Frame({"dob"}, <<Row(6, 6, 0, "food", 1, 0)>>),
     Frame({"category"}, <<Row(0, 0, 0, "gas", 1, 0)>>)}

\* what train does with each training frame
TrainTable == [df \in TrainFrames |-> TrainAssignments(df)]

FraudDetectorTrain(d, df) ==
    [fd |-> Assign(d, TrainTable[df].assigned), ret |-> TrainTable[df].ret]

(***************************************************************************)
(* The FraudDetector driven by a caller: one action per method, one for    *)
(* constructing a fresh detector, and the ways the model file changes on   *)
(* disk between calls.                                                     *)
(***************************************************************************)
othervars == <<detvars, hist, ncalls, ncalibrate, since_check, calib, last, tvars, optvars,
               svcvars, livevars>>

\* the bookkeeping every call shares
Called(name, arg) ==
    /\ fd_calls < MaxFdCalls
    /\ fd_calls' = fd_calls + 1
    /\ fd_call' = [name |-> name, arg |-> arg]
    /\ fd_before' = FD
    /\ file_before' = model_file
    /\ UNCHANGED othervars

\* the answers seen so far, with one more answer r to the input df
Answered(df, r) ==
    [x \in DOMAIN answers \cup {df} |->
        IF x \in DOMAIN answers
        THEN [results |-> answers[x].results \cup (IF x = df THEN {r} ELSE {}),
              n |-> answers[x].n + (IF x = df THEN 1 ELSE 0)]
        ELSE [results |-> {r}, n |-> 1]]

\* mutant: predict keeps the encoders it refits when none are passed on
PredictRefits(d, df) == [d EXCEPT !.encoders = ExtractFeatures(df, None).encoders]

\* the fields after predict has run on df: predict assigns no field
PredictEffect(d, df) == d

FdNew ==
    /\ FD # NewFraudDetector
    /\ SetFD(NewFraudDetector)
    /\ ret' = NoCall
    /\ fd_call' = [name |-> "__init__", arg |-> None]
    /\ fd_before' = NewFraudDetector
    /\ file_before' = model_file
    /\ answers' = EmptyDict
    /\ UNCHANGED <<othervars, model_file, fd_calls, saved>>

FdTrain(df) ==
    /\ Called("train", df)
    /\ \E r \in {FraudDetectorTrain(FD, df)} :
          /\ SetFD(r.fd)
          /\ ret' = r.ret
    /\ answers' = EmptyDict
    /\ UNCHANGED <<model_file, saved>>

FdPredict(df) ==
    /\ Called("predict", df)
    /\ \E r \in {FraudDetectorPredict(FD, df)} :
          /\ ret' = r
          /\ SetFD(IF ~is_trained THEN FD ELSE PredictEffect(FD, df))
          /\ answers' = IF r = RaiseError THEN answers ELSE Answered(df, r)
    /\ UNCHANGED <<model_file, saved>>

FdPredictSingle(df) ==
    /\ Called("predict_single", df)
    /\ ret' = FraudDetectorPredictSingle(FD, df)
    /\ SetFD(IF ~is_trained THEN FD ELSE PredictEffect(FD, df))
    /\ UNCHANGED <<model_file, answers, saved>>

FdEvaluate(df) ==
    /\ Called("evaluate", df)
    /\ ret' = FraudDetectorEvaluate(FD, df)
    /\ SetFD(IF ~is_trained \/ "is_fraud" \notin df.has THEN FD ELSE PredictEffect(FD, df))
    /\ UNCHANGED <<model_file, answers, saved>>

FdSaveModel ==
    /\ Called("save_model", None)
    /\ \E r \in {FraudDetectorSaveModel(FD, model_file)} :
          /\ model_file' = r.file
          /\ ret' = r.ret
          /\ saved' = IF r.ret = RaiseError THEN saved ELSE [fd |-> FD, file |-> r.file]
    /\ UNCHANGED <<fieldvars, answers>>

FdLoadModel ==
    /\ Called("load_model", None)
    /\ \E r \in {FraudDetectorLoadModel(FD, model_file)} :
          /\ SetFD(r.fd)
          /\ ret' = r.ret
    /\ answers' = EmptyDict
    /\ UNCHANGED <<model_file, saved>>

\* the file changes on disk between two calls
FileChanged(file) ==
    /\ file # model_file
    /\ model_file' = file
    /\ file_before' = file
    /\ fd_before' = FD
    /\ fd_call' = [name |-> "file changed", arg |-> None]
    /\ ret' = NoCall
    /\ UNCHANGED <<othervars, fieldvars, fd_calls, answers, saved>>

FileRemoved == model_file # NoFile /\ FileChanged(NoFile)

FileCorrupted == model_file.kind = "pickle" /\ FileChanged(CorruptFile)

\* the keys an artifact written by another version of save_model may lack
OptionalKeys == {"encoders", "training_columns", "feature_columns", "metrics", "is_trained"}

Without(data, k) == [x \in DOMAIN data \ {k} |-> data[x]]

\* an artifact written by another version of save_model takes the file's place
FileFromOtherVersion(k) ==
    /\ model_file.kind = "pickle"
    /\ k \in DOMAIN model_file.data
    /\ FileChanged([model_file EXCEPT !.data = Without(model_file.data, k)])

InitFD == InitAdaptive({1}, BaseThresholds) /\ InitRest

NextFD ==
    \/ FdNew
    \/ \E df \in TrainFrames : FdTrain(df)
    \/ \E df \in PredictFrames : FdPredict(df)
    \/ \E df \in Transactions : FdPredictSingle(df)
    \/ \E df \in PredictFrames : FdEvaluate(df)
    \/ FdSaveModel
    \/ FdLoadModel
    \/ FileRemoved
    \/ FileCorrupted
    \/ \E k \in OptionalKeys : FileFromOtherVersion(k)

SpecFD == InitFD /\ [][NextFD]_vars

(***************************************************************************)
(* Properties of the FraudDetector.                                        *)
(***************************************************************************)

\* C14: a load_model that fails leaves every field of the detector as it was before the
\* call.
C14_LoadAllOrNothing ==
    (fd_call.name = "load_model" /\ ret = RaiseError) => FD = fd_before

\* the failures the claim lists that do leave the fields alone: no file, a corrupt pickle
C14_FailsBeforeAssigning ==
    (fd_call.name = "load_model" /\ file_before.kind # "pickle")
        => (ret = RaiseError /\ FD = fd_before)

\* C15: load_model of the file save_model wrote restores every field of the detector that
\* was saved, so predict answers every input as the saved detector does.
C15_RoundTrip ==
    (fd_call.name = "load_model" /\ saved # None /\ file_before = saved.file)
        => /\ ret = [op |-> "load_model"]
           /\ FD = saved.fd
           /\ \A df \in PredictFrames :
                 FraudDetectorPredict(FD, df) = FraudDetectorPredict(saved.fd, df)

\* a fresh detector has loaded what a detector with fitted encoders saved
C15_Witness ==
    /\ fd_call.name = "load_model"
    /\ saved # None
    /\ file_before = saved.file
    /\ fd_before = NewFraudDetector
    /\ ret = [op |-> "load_model"]
    /\ encoders # None
    /\ "category" \in DOMAIN encoders
    /\ is_trained

\* C16: predict and evaluate assign no field of the detector, and predict gives one
\* answer per input as long as no train or load intervenes.
C16_ReadOnly ==
    /\ fd_call.name \in {"predict", "evaluate"} => FD = fd_before
    /\ \A df \in DOMAIN answers : Cardinality(answers[df].results) = 1

\* predict has answered the same input twice, with a category the encoders do not know
C16_Witness ==
    /\ fd_call.name = "predict"
    /\ ret # RaiseError
    /\ encoders # None
    /\ "category" \in DOMAIN encoders
    /\ "category" \in fd_call.arg.has
    /\ answers[fd_call.arg].n >= 2

\* C17: on an untrained detector predict, predict_single, evaluate and save_model raise,
\* assign no field, and save_model leaves the file alone.
C17_Untrained ==
    (/\ fd_call.name \in {"predict", "predict_single", "evaluate", "save_model"}
     /\ ~fd_before.is_trained)
        => (ret = RaiseError /\ FD = fd_before /\ model_file = file_before)

\* save_model has raised on a detector as constructed, and there is no file
C17_Witness ==
    /\ fd_call.name = "save_model"
    /\ fd_before = NewFraudDetector
    /\ ret = RaiseError
    /\ FD = NewFraudDetector
    /\ model_file = NoFile

\* the source column of a feature is not among the columns of the frame
Absent(col, df) ==
    \/ col = "age" /\ "dob" \notin df.has
    \/ col \in {"foo", "category"} /\ col \notin df.has

\* C18: on rows with the required fields, the matrix a trained detector scores has the
\* training columns in their order, a training column the input lacks is 0 in every row,
\* and predict raises only when the Gaussian parameters cannot be inverted.
C18_Aligned ==
    (/\ fd_call.name = "predict"
     /\ fd_before.is_trained
     /\ fd_before.training_columns # None
     /\ fd_call.arg.required)
        => IF ret = RaiseError THEN ~Invertible(fd_before.covariance_matrix)
           ELSE /\ ret.columns = fd_before.training_columns.cols
                /\ Len(ret.X) = Len(fd_call.arg.rows)
                /\ \A p \in 1..Len(ret.X) :
                      /\ Len(ret.X[p]) = Len(ret.columns)
                      /\ \A c \in 1..Len(ret.columns) :
                            IF Absent(ret.columns[c], fd_call.arg) THEN ret.X[p][c] = 0
                            ELSE ret.columns[c] = "amt_log"
                                    => ret.X[p][c] = fd_call.arg.rows[ret.order[p]].amt

\* predict has scored rows that lack the training column age and carry the extra column foo
C18_Witness ==
    /\ fd_call.name = "predict"
    /\ ret # RaiseError
    /\ "age" \in Range(ret.columns)
    /\ "dob" \notin fd_call.arg.has
    /\ "foo" \in fd_call.arg.has
    /\ "foo" \notin Range(ret.columns)
    /\ \E p \in 1..Len(ret.X) : fd_call.arg.rows[p].age # 0

\* the frame has legitimate and fraud rows, and one of its features is the same in every
\* legitimate row
ZeroVarianceFeature(df) ==
    LET legit == {p \in 1..Len(df.rows) : df.rows[p].is_fraud = 0}
    IN  /\ df.required
        /\ "is_fraud" \in df.has
        /\ Cardinality(legit) >= 2
        /\ \E p \in 1..Len(df.rows) : df.rows[p].is_fraud = 1
        /\ \/ "foo" \in df.has /\ \A p, q \in legit : df.rows[p].foo = df.rows[q].foo
           \/ "dob" \in df.has /\ \A p, q \in legit : df.rows[p].age = df.rows[q].age
           \/ \A p, q \in legit : df.rows[p].amt = df.rows[q].amt

\* C19: training on rows in which one feature has zero variance completes without raising.
C19_ZeroVarianceTrains ==
    (fd_call.name = "train" /\ ZeroVarianceFeature(fd_call.arg)) => ret # RaiseError

(***************************************************************************)
(* hackathon_live.py: main starts one thread per event of the stream, and  *)
(* each thread runs process_transaction on what json.loads made of the     *)
(* event.  The call of predict_with_confidence inside it takes the steps   *)
(* T56 .. T86 above.  send_to_backend catches its own errors and returns;  *)
(* its counter stats['timeouts'] is not followed.  The detector is built   *)
(* with target_fraud_rate 0.22 there; the model keeps the default rate,    *)
(* which the counters of stats do not depend on.                           *)
(***************************************************************************)
\* MIN_CONFIDENCE = 0.55 as a ratio: the confidence is log10(ratio) / 2, so confidence >= 0.55
\* iff ratio >= 10^1.1 = 12.5892...; no ratio of the model lies between 12.589 and 12.59
MIN_CONFIDENCE == [hi |-> 1259, lo |-> 100]

\* what json.loads(event.data) can hand over: an object with usable fields, an object
\* whose amt is not a number, an object without the fields extract_features requires, and
\* JSON that is not an object (an array, a string, a number, null)
TransactionKinds == {"valid", "bad_amt", "bad_record", "not_dict"}

LGo(t, l) == lpc' = [lpc EXCEPT ![t] = l]

detectorvars == <<detvars, ghostvars, tvars, optvars, svcvars, fdvars>>

\* the calibration_size the live detector is constructed with here
LiveCalibrationSize == 2

LiveStarted == \E t \in Threads : lpc[t] # "idle"

\* process_transaction from its first line to its last, on a valid transaction that
\* scores s, while no other transaction is in progress
ProcessOne(s) ==
    /\ Call(<<s>>)
    /\ \E flagged \in {ShouldFlagOf(adaptive_threshold', s, ret'.confidence[1],
                                    MIN_CONFIDENCE)} :
          stats' = [stats EXCEPT !.total_processed = @ + 1,
                                 !.fraud_detected = @ + (IF flagged THEN 1 ELSE 0),
                                 !.legitimate = @ + (IF flagged THEN 0 ELSE 1)]
    /\ UNCHANGED <<tvars, optvars, svcvars, fdvars, lock, lpc, txn>>

\* a valid transaction that arrives before the first worker thread is started
LiveAlone(s) ==
    /\ ~LiveStarted
    /\ Len(hist) < RECAL_EVERY - 1
    /\ (Len(hist) >= StreamFree /\ Len(hist) % StreamBlock # 0) => s = hist[Len(hist)][1]
    /\ ProcessOne(s)

\* main, lines 401-408: threading.Thread(target=process_transaction, args=(transaction,))
LiveSpawn(t, kind, s) ==
    /\ lpc[t] = "idle"
    /\ \A u \in Threads : u < t => lpc[u] # "idle"
    /\ \/ LiveStarted
       \/ Len(hist) < LiveCalibrationSize
       \/ Len(hist) >= RECAL_EVERY - MaxThreads
    /\ LGo(t, "l158")
    /\ txn' = [txn EXCEPT ![t] = [NoTransaction EXCEPT !.kind = kind, !.prob = s]]
    /\ UNCHANGED <<detectorvars, stats, lock>>

\* line 158, before the try: trans_num = transaction.get('trans_num', 'unknown')
L158(t) ==
    /\ lpc[t] = "l158"
    /\ LGo(t, IF txn[t].kind = "not_dict" THEN "escaped" ELSE "l162")
    /\ UNCHANGED <<detectorvars, stats, lock, txn>>

\* lines 162-187: trans_data = {... float(transaction.get('amt', 0)) ...}
L162(t) ==
    /\ lpc[t] = "l162"
    /\ LGo(t, IF txn[t].kind = "bad_amt" THEN "l308" ELSE "l193")
    /\ UNCHANGED <<detectorvars, stats, lock, txn>>

\* line 193: detector.predict_with_confidence(df_trans) is entered; on a record without
\* the required fields detector.predict raises at its line 56
L193(t) ==
    /\ lpc[t] = "l193"
    /\ IF txn[t].kind = "bad_record"
       THEN /\ LGo(t, "l308")
            /\ UNCHANGED <<pc, loc, d0>>
       ELSE /\ LGo(t, "call")
            /\ Go(t, "l56")
            /\ loc' = [loc EXCEPT ![t] = [NoLocals EXCEPT !.prob = txn[t].prob]]
            /\ d0' = IF BurstStarted THEN d0 ELSE Det
    /\ UNCHANGED <<detvars, ghostvars, optvars, svcvars, fdvars, stats, lock, txn>>

\* lines 195-253: the call has returned; should_flag, is_fraud, send_to_backend
L200(t) ==
    /\ lpc[t] = "call"
    /\ pc[t] = "done"
    /\ txn' = [txn EXCEPT ![t].is_fraud =
                  IF ShouldFlagOf(adaptive_threshold, loc[t].prob, loc[t].conf,
                                  MIN_CONFIDENCE) THEN 1 ELSE 0]
    /\ LGo(t, "l255")
    /\ UNCHANGED <<detectorvars, stats, lock>>

\* line 255: with lock
L255(t) ==
    /\ lpc[t] = "l255"
    /\ lock = 0
    /\ lock' = t
    /\ LGo(t, "l256")
    /\ UNCHANGED <<detectorvars, stats, txn>>

\* line 256: stats['total_processed'] += 1
L256(t) ==
    /\ lpc[t] = "l256"
    /\ stats' = [stats EXCEPT !.total_processed = @ + 1]
    /\ txn' = [txn EXCEPT ![t].counted = @ + 1]
    /\ LGo(t, "l257")
    /\ UNCHANGED <<detectorvars, lock>>

\* lines 257-280: fraud_detected or legitimate, the averages, recent_transactions; the
\* lock is released
L257(t) ==
    /\ lpc[t] = "l257"
    /\ stats' = IF txn[t].is_fraud = 1
                THEN [stats EXCEPT !.fraud_detected = @ + 1]
                ELSE [stats EXCEPT !.legitimate = @ + 1]
    /\ lock' = 0
    /\ LGo(t, "l283")
    /\ UNCHANGED <<detectorvars, txn>>

\* lines 283-302: the log output
L283(t) ==
    /\ lpc[t] = "l283"
    /\ LGo(t, "returned")
    /\ UNCHANGED <<detectorvars, stats, lock, txn>>

\* lines 304-308: except Exception; with lock
L308(t) ==
    /\ lpc[t] = "l308"
    /\ lock = 0
    /\ lock' = t
    /\ LGo(t, "l309")
    /\ UNCHANGED <<detectorvars, stats, txn>>

\* line 309: stats['errors'] += 1; the lock is released
L309(t) ==
    /\ lpc[t] = "l309"
    /\ stats' = [stats EXCEPT !.errors = @ + 1]
    /\ txn' = [txn EXCEPT ![t].failed = @ + 1]
    /\ lock' = 0
    /\ LGo(t, "returned")
    /\ UNCHANGED <<detectorvars>>

InitSpecLive == InitWith({LiveCalibrationSize}, BaseThresholds)

NextLive ==
    \/ \E s \in Scores : LiveAlone(s)
    \/ \E t \in Threads, kind \in TransactionKinds, s \in Scores : LiveSpawn(t, kind, s)
    \/ \E t \in Threads :
          \/ L158(t) \/ L162(t) \/ L193(t) \/ L200(t) \/ L255(t) \/ L256(t) \/ L257(t)
          \/ L283(t) \/ L308(t) \/ L309(t)
    \/ \E t \in Threads :
          \/ T56(t) \/ T59(t) \/ T61(t) \/ T64(t) \/ T92(t) \/ T97(t) \/ T99(t)
          \/ T68(t) \/ T71(t) \/ T74(t) \/ T74w(t) \/ T75(t) \/ T75w(t)
          \/ T79(t) \/ T80(t) \/ T83(t) \/ T112(t) \/ T86(t)

SpecLive == InitSpecLive /\ [][NextLive]_vars

Handed(t) == lpc[t] # "idle"

\* the number of transactions processed before the first worker thread was started
Alone == Len(hist) - Cardinality({t \in Threads : pc[t] = "done"})

Ended(t) == lpc[t] \in {"returned", "escaped"}

\* C20: no exception escapes process_transaction; a transaction whose thread has ended
\* was counted once, either in total_processed and one of fraud_detected / legitimate or
\* in errors; and whenever the lock is free total_processed = fraud_detected + legitimate.
C20_OneOutcome ==
    /\ \A t \in Threads : lpc[t] # "escaped"
    /\ \A t \in Threads : Ended(t) => txn[t].counted + txn[t].failed = 1
    /\ (\A t \in Threads : Handed(t) => Ended(t))
          => stats.total_processed + stats.errors
                = Alone + Cardinality({t \in Threads : Handed(t)})
    /\ lock = 0 => stats.total_processed = stats.fraud_detected + stats.legitimate

\* the same for the transactions that are JSON objects
C20_ObjectsOneOutcome ==
    /\ \A t \in Threads : lpc[t] = "escaped" => txn[t].kind = "not_dict"
    /\ \A t \in Threads : lpc[t] = "returned" => txn[t].counted + txn[t].failed = 1
    /\ stats.total_processed = Alone + Cardinality({t \in Threads : txn[t].counted = 1})
    /\ stats.errors = Cardinality({t \in Threads : txn[t].failed = 1})
    /\ lock = 0 => stats.total_processed = stats.fraud_detected + stats.legitimate

(***************************************************************************)
(* The order of the rows.                                                  *)
(***************************************************************************)
\* the frame made of row p of df alone
RowFrame(df, p) == [df EXCEPT !.rows = <<df.rows[p]>>]

\* what the detector d answers for row p of df when it is asked about that row alone
RowAnswer(d, df, p) == FraudDetectorPredict(d, RowFrame(df, p))

\* C21: element i of the predictions and probabilities predict returns belongs to input
\* row i, and evaluate counts each row's prediction against that row's label.
C21_InputOrder ==
    /\ (fd_call.name = "predict" /\ ret # RaiseError)
          => \A p \in 1..Len(fd_call.arg.rows) :
                /\ ret.probabilities[p] = RowAnswer(fd_before, fd_call.arg, p).probabilities[1]
                /\ ret.predictions[p] = RowAnswer(fd_before, fd_call.arg, p).predictions[1]
    /\ (fd_call.name = "evaluate" /\ ret # RaiseError)
          => ret.true_positives
                = Cardinality({p \in 1..Len(fd_call.arg.rows) :
                                  /\ fd_call.arg.rows[p].is_fraud = 1
                                  /\ RowAnswer(fd_before, fd_call.arg, p).predictions[1] = 1})

\* the same for inputs without a customer column
C21_InputOrderWithoutSsn ==
    (fd_call.name \in {"predict", "evaluate"} /\ "ssn" \notin fd_call.arg.has)
        => C21_InputOrder

(***************************************************************************)
(* The live stream, one transaction at a time, up to the first             *)
(* recalibration check.  The scores span orders of magnitude, and a score  *)
(* may differ from the one before it only at the positions TrackChanges.   *)
(***************************************************************************)
TrackScores == {1, 100, 1000}

TrackThresholds == {500}

\* 1, and the calibration_size hackathon_live.py constructs the detector with
TrackCalibrationSizes == {1, 50}

TrackChanges == {0, 1, 10, 50, 99}

InitTrack == InitWith(TrackCalibrationSizes, TrackThresholds)

TrackItem(s) ==
    /\ Len(hist) < RECAL_EVERY
    /\ Len(hist) \notin TrackChanges => s = hist[Len(hist)][1]
    /\ ProcessOne(s)

NextTrack == \E s \in TrackScores : TrackItem(s)

SpecTrack == InitTrack /\ [][NextTrack]_vars

\* C22: when should_flag, called with the score and the confidence predict_with_confidence
\* returned for an item, returns true, the prediction returned for that item was 1.
C22_OneThreshold ==
    [][stats'.fraud_detected > stats.fraud_detected => ret'.predictions[1] = 1]_vars

\* the same for the items whose call does not run the recalibration check
C22_OneThresholdNoCheck ==
    [][(stats'.fraud_detected > stats.fraud_detected /\ ~last'.ran_recalibrate)
          => ret'.predictions[1] = 1]_vars

\* the flag rate of the rolling window, in percent, is above / below the tolerated band
RateTooHigh ==
    100 * Ones(recent_predictions)
        > (TARGET_PERCENT + TOLERANCE_PERCENT) * Len(recent_predictions)

RateTooLow ==
    100 * Ones(recent_predictions)
        < (TARGET_PERCENT - TOLERANCE_PERCENT) * Len(recent_predictions)

\* C23: a recalibration that fires because the flag rate is too high does not raise the
\* threshold, and one that fires because it is too low does not lower it.
C23_TowardTarget ==
    (last.ran_recalibrate /\ Len(recent_probs) >= RECAL_MIN_SAMPLES)
        => /\ RateTooHigh => RatLeq(adaptive_threshold, last.used_threshold)
           /\ RateTooLow => RatLeq(last.used_threshold, adaptive_threshold)

\* the same when every item of the window was decided with the threshold in use
C23_TowardTargetOneThreshold ==
    (/\ last.ran_recalibrate
     /\ Len(recent_probs) >= RECAL_MIN_SAMPLES
     /\ recent_predictions = AdaptivePredictions(recent_probs, last.used_threshold))
        => /\ RateTooHigh => RatLeq(adaptive_threshold, last.used_threshold)
           /\ RateTooLow => RatLeq(last.used_threshold, adaptive_threshold)

(***************************************************************************)
(* The range of the active threshold.                                      *)
(***************************************************************************)
Between(x, a, b) == (RatLeq(a, x) /\ RatLeq(x, b)) \/ (RatLeq(b, x) /\ RatLeq(x, a))

\* the threshold the detector holds is a non-negative number
NonNegative(x) == x.d > 0 /\ x.n >= 0

\* C24: with a non-negative base threshold and non-negative scores the active threshold is
\* a non-negative number in every state; the calibrated threshold lies between the smallest
\* and the largest calibration score; after a recalibration check the threshold lies between
\* the threshold the call decided with and the target percentile of the window.
C24_ThresholdInRange ==
    /\ NonNegative(adaptive_threshold)
    /\ is_calibrated =>
          /\ calib.ran
          /\ RatLeq(FromInt(SeqMin(calibration_probs)), calib.threshold)
          /\ RatLeq(calib.threshold, FromInt(SeqMax(calibration_probs)))
    /\ last.ran_recalibrate =>
          Between(adaptive_threshold, last.used_threshold,
                  Percentile(recent_probs, TARGET_PERCENT))

\* a recalibration has moved the threshold strictly between the old one and the candidate,
\* after a calibration on scores that are not all equal
C24_Witness ==
    /\ is_calibrated
    /\ last.ran_recalibrate
    /\ adaptive_threshold # last.used_threshold
    /\ adaptive_threshold # Percentile(recent_probs, TARGET_PERCENT)
    /\ SeqMin(calibration_probs) < SeqMax(calibration_probs)

(***************************************************************************)
(* A training that fails on a trained detector.                            *)
(***************************************************************************)
\* C25: a train call that fails on an already trained detector leaves every field of the
\* detector as the previous training set it.
C25_TrainAllOrNothing ==
    (fd_call.name = "train" /\ ret = RaiseError /\ fd_before.is_trained) => FD = fd_before

\* the failures that do leave the fields alone: no label column (line 61), a required
\* column missing (extract_features raises before line 71 assigns)
C25_FailsBeforeAssigning ==
    (/\ fd_call.name = "train"
     /\ fd_before.is_trained
     /\ ("is_fraud" \notin fd_call.arg.has \/ ~fd_call.arg.required))
        => (ret = RaiseError /\ FD = fd_before)

(***************************************************************************)
(* The range of the threshold optimal_threshold returns.                   *)
(***************************************************************************)
TwoDistinctScores == Len(probabilities) > 0 /\ SeqMin(probabilities) < SeqMax(probabilities)

InHalfOpenRange(eps) ==
    /\ RatLeq(FromInt(SeqMin(probabilities)), eps)
    /\ RatLess(eps, FromInt(SeqMax(probabilities)))

\* C26: on a non-empty input with at least two distinct scores the call returns a threshold
\* in [min(scores), max(scores)), also when no candidate has an F1 above 0.
C26_ThresholdInGrid ==
    (TwoDistinctScores /\ ret # NoCall) =>
        /\ ret.op = "optimal_threshold"
        /\ InHalfOpenRange(ret.best_epsilon)

\* the same for the calls that return an F1 above 0
C26_ThresholdInGridPositiveF1 ==
    (TwoDistinctScores /\ ret # NoCall) =>
        /\ ret.op = "optimal_threshold"
        /\ RatLess(FromInt(0), ret.best_F1) => InHalfOpenRange(ret.best_epsilon)

(***************************************************************************)
(* routes/transaction_routes.py: get_fraud_detector, called by the request *)
(* threads of the server.  Every line reads the global                     *)
(* _fraud_detector_cache anew.  load_model is taken as one step.           *)
(***************************************************************************)
THRESHOLD_BOOST == 30

\* the detector whose artifact is deployed
TrainedDetector == Assign(NewFraudDetector, TrainTable[GoodAge].assigned)

\* fraud_detector_model.pkl: as save_model wrote it, missing, or written without metrics
RouteFiles ==
    {ModelData(TrainedDetector), NoFile,
     [ModelData(TrainedDetector) EXCEPT !.data = Without(@, "metrics")]}

Boost(t) == Rat(THRESHOLD_BOOST * t.n, t.d)

nonroutevars == <<detvars, ghostvars, tvars, optvars, fdvars, livevars, notifvars>>

RGo(t, l) == gpc' = [gpc EXCEPT ![t] = l]

\* line 21: if _fraud_detector_cache is None
G21(t) ==
    /\ gpc[t] = "idle"
    /\ RGo(t, IF fraud_detector_cache = None THEN "l23" ELSE "l36")
    /\ UNCHANGED <<fraud_detector_cache, objects, artifact, gloc, nonroutevars>>

\* line 23: _fraud_detector_cache = FraudDetector()
G23(t) ==
    /\ gpc[t] = "l23"
    /\ objects' = Append(objects, NewFraudDetector)
    /\ fraud_detector_cache' = [obj |-> Len(objects) + 1]
    /\ RGo(t, "l24")
    /\ UNCHANGED <<artifact, gloc, nonroutevars>>

\* line 24: _fraud_detector_cache.load_model('fraud_detector_model.pkl')
G24(t) ==
    /\ gpc[t] = "l24"
    /\ \E r \in {FraudDetectorLoadModel(objects[fraud_detector_cache.obj], artifact)} :
          /\ objects' = [objects EXCEPT ![fraud_detector_cache.obj] = r.fd]
          /\ RGo(t, IF r.ret = RaiseError THEN "raised" ELSE "l27")
    /\ UNCHANGED <<fraud_detector_cache, artifact, gloc, nonroutevars>>

\* line 27: original_threshold = _fraud_detector_cache.threshold
G27(t) ==
    /\ gpc[t] = "l27"
    /\ gloc' = [gloc EXCEPT ![t].original_threshold =
                                  objects[fraud_detector_cache.obj].threshold]
    /\ RGo(t, "l29")
    /\ UNCHANGED <<fraud_detector_cache, objects, artifact, nonroutevars>>

\* line 29: _fraud_detector_cache.threshold = original_threshold * THRESHOLD_BOOST;
\* None * 30 raises TypeError
G29(t) ==
    /\ gpc[t] = "l29"
    /\ IF gloc[t].original_threshold = None
       THEN RGo(t, "raised") /\ UNCHANGED objects
       ELSE /\ objects' = [objects EXCEPT ![fraud_detector_cache.obj].threshold =
                                               Boost(gloc[t].original_threshold)]
            /\ RGo(t, "l36")
    /\ UNCHANGED <<fraud_detector_cache, artifact, gloc, nonroutevars>>

\* line 36: return _fraud_detector_cache
G36(t) ==
    /\ gpc[t] = "l36"
    /\ gloc' = [gloc EXCEPT ![t].detector = fraud_detector_cache]
    /\ RGo(t, "returned")
    /\ UNCHANGED <<fraud_detector_cache, objects, artifact, nonroutevars>>

InitSpecRoute ==
    /\ InitAdaptive({1}, BaseThresholds)
    /\ InitOptimizer
    /\ InitFraudDetector
    /\ InitLive
    /\ InitRoute(RouteFiles)
    /\ InitNotifications

NextRoute ==
    \/ \E t \in Threads : G21(t)
    \/ \E t \in Threads : G23(t)
    \/ \E t \in Threads : G24(t)
    \/ \E t \in Threads : G27(t)
    \/ \E t \in Threads : G29(t)
    \/ \E t \in Threads : G36(t)

SpecRoute == InitSpecRoute /\ [][NextRoute]_vars

\* the detector thread t got from get_fraud_detector
Returned(t) == objects[gloc[t].detector.obj]

LoadedAndBoostedOnce(d) ==
    /\ d.is_trained
    /\ artifact.kind = "pickle"
    /\ d.threshold = Boost(artifact.data.threshold)

\* C27: every detector get_fraud_detector has returned is loaded (is_trained) and its
\* threshold is 30 x the artifact's threshold, whatever the interleaving of the request
\* threads and also after a call whose load_model raised.
C27_LoadedBoostedOnce ==
    \A t \in Threads : gpc[t] = "returned" => LoadedAndBoostedOnce(Returned(t))

\* a request that runs from its first line to its return while no other request is in the
\* function, on an empty cache, does get such a detector
C27_AloneLoadedBoostedOnce ==
    \A t \in Threads :
        (gpc[t] = "returned" /\ \A u \in Threads \ {t} : gpc[u] = "idle")
            => LoadedAndBoostedOnce(Returned(t))

(***************************************************************************)
(* A call in which the base detector raises.                               *)
(***************************************************************************)
\* C28: a predict_with_confidence call in which the base detector's predict raises leaves
\* the calibration buffer, the rolling windows, the counters, the Calibrated flag and the
\* active threshold exactly as they were before the call.
C28_FailedCallChangesNothing ==
    [][(ncalls' = ncalls + 1 /\ ret'.op = "raise") => UNCHANGED detvars]_vars

\* a call has failed on a detector that is filling its calibration buffer
C28_Witness ==
    /\ ret.op = "raise"
    /\ ~is_calibrated
    /\ Len(calibration_probs) > 0
    /\ total_processed = Len(calibration_probs)

(***************************************************************************)
(* Artifacts written before save_model stored encoders and                 *)
(* training_columns.                                                       *)
(***************************************************************************)
\* the last call loaded the saved artifact without its entry k
LoadedWithout(k) ==
    /\ fd_call.name = "load_model"
    /\ saved # None
    /\ file_before.kind = "pickle"
    /\ file_before.data = Without(saved.file.data, k)

\* the loaded detector answers every input the saving detector answered
AnswersLikeSaved ==
    \A df \in PredictFrames :
        FraudDetectorPredict(saved.fd, df) # RaiseError
            => FraudDetectorPredict(FD, df) # RaiseError

\* C29: loading an artifact that has no 'encoders' entry or no 'training_columns' entry
\* succeeds, and predict on valid rows then returns decisions and scores.
C29_OlderArtifacts ==
    (LoadedWithout("encoders") \/ LoadedWithout("training_columns"))
        => (ret = [op |-> "load_model"] /\ AnswersLikeSaved)

\* the same for artifacts without 'encoders' only; the load succeeds in both cases
C29_WithoutEncoders ==
    /\ LoadedWithout("encoders") => (ret = [op |-> "load_model"] /\ AnswersLikeSaved)
    /\ LoadedWithout("training_columns") => ret = [op |-> "load_model"]

(***************************************************************************)
(* services/notification_service.py.  Ids are strings, modelled as         *)
(* sequences of characters.  bson's ObjectId(id_str) accepts a string of   *)
(* 24 hexadecimal digits and raises InvalidId on any other string.         *)
(***************************************************************************)
MaxNotifications == 2

HexDigits == {"0", "1", "2", "3", "4", "5", "6", "7", "8", "9", "a", "b", "c", "d", "e", "f"}

OBJECT_ID_LEN == 24

UUID_HEX_LEN == 32

\* mutant: every string is taken as an id
ValidateAnyId(id) == TRUE

\* validators.validate_object_id: ObjectId(id_str) does not raise
ValidateObjectId(id) ==
    Len(id) = OBJECT_ID_LEN /\ \A i \in 1..Len(id) : id[i] \in HexDigits

FallbackPrefix == <<"f", "a", "l", "l", "b", "a", "c", "k", "-">>

\* f"fallback-{uuid.uuid4().hex}"
FallbackId(hex) == FallbackPrefix \o hex

\* the values uuid.uuid4().hex takes in the model
UuidHexes == {Rep(UUID_HEX_LEN, "a"), Rep(UUID_HEX_LEN, "0")}

\* the values of str(result.inserted_id) in the model
InsertedIds == {Rep(OBJECT_ID_LEN, "a"), Rep(OBJECT_ID_LEN, "b")}

\* the ids of FALLBACK_NOTIFICATIONS
StaticFallbackIds == {FallbackPrefix \o <<"1">>, FallbackPrefix \o <<"2">>}

\* ids a client sends: the ones it was given, and one that names nothing
NotificationIds ==
    StaticFallbackIds \cup {FallbackId(h) : h \in UuidHexes} \cup InsertedIds
        \cup {FallbackPrefix \o <<"3">>}

VALID_TYPES == {"success", "error", "warning", "info", "high", "medium", "low"}

\* notification_data: complete, without type, with a type that is not one, without message
NotificationInputs ==
    {[message |-> "alert", type |-> "info"], [text |-> "alert", type |-> "high"],
     [message |-> "alert"], [message |-> "alert", type |-> "urgent"], [type |-> "info"],
     [message |-> "", type |-> "info"]}

\* validators.validate_notification
ValidateNotification(data) ==
    /\ "message" \in DOMAIN data \/ "text" \in DOMAIN data
    /\ "type" \in DOMAIN data
    /\ data.type \in VALID_TYPES
    /\ (IF "message" \in DOMAIN data THEN data.message ELSE data.text) # ""

DatabaseUnavailable == [success |-> FALSE, code |-> "database_unavailable"]

InvalidIdFormat == [success |-> FALSE, error |-> "Invalid ID format"]

NotFound == [success |-> FALSE, error |-> "Notification not found"]

Ids(store) == {store[i].id : i \in 1..Len(store)}

\* the first notification of the store with this id gets read = True
MarkFirst(store, id) ==
    LET first == CHOOSE i \in 1..Len(store) :
                     store[i].id = id /\ \A j \in 1..(i - 1) : store[j].id # id
    IN  [store EXCEPT ![first].read = TRUE]

\* the store without the notifications with this id
RemoveId(store, id) == SelectSeq(store, LAMBDA n : n.id # id)

NfCalled(name, arg) ==
    /\ nf_call' = [name |-> name, arg |-> arg, store |-> IN_MEMORY_NOTIFICATIONS,
                   db_store |-> db_notifications, db |-> db_available]
    /\ UNCHANGED <<detvars, ghostvars, tvars, optvars, fdvars, livevars, routevars,
                   db_available>>

\* add_notification
AddNotification(data, hex, oid) ==
    /\ NfCalled("add_notification", <<>>)
    /\ IF ~ValidateNotification(data)
       THEN /\ nf_ret' = [success |-> FALSE, error |-> "validation"]
            /\ UNCHANGED <<IN_MEMORY_NOTIFICATIONS, db_notifications, nf_ids>>
       ELSE IF ~db_available
       THEN /\ Len(IN_MEMORY_NOTIFICATIONS) < MaxNotifications
            /\ FallbackId(hex) \notin Ids(IN_MEMORY_NOTIFICATIONS)
            /\ IN_MEMORY_NOTIFICATIONS' =
                   <<[id |-> FallbackId(hex), read |-> FALSE]>> \o IN_MEMORY_NOTIFICATIONS
            /\ nf_ret' = [success |-> TRUE, notification_id |-> FallbackId(hex),
                          fallback |-> TRUE]
            /\ nf_ids' = nf_ids \cup {FallbackId(hex)}
            /\ UNCHANGED db_notifications
       ELSE /\ Len(db_notifications) < MaxNotifications
            /\ oid \notin Ids(db_notifications)
            /\ db_notifications' = Append(db_notifications, [id |-> oid, read |-> FALSE])
            /\ nf_ret' = [success |-> TRUE, notification_id |-> oid]
            /\ UNCHANGED <<IN_MEMORY_NOTIFICATIONS, nf_ids>>

\* mark_as_read
MarkAsRead(id) ==
    /\ NfCalled("mark_as_read", id)
    /\ UNCHANGED nf_ids
    /\ IF ~ValidateObjectId(id)
       THEN /\ nf_ret' = InvalidIdFormat
            /\ UNCHANGED <<IN_MEMORY_NOTIFICATIONS, db_notifications>>
       ELSE IF ~db_available
       THEN /\ IN_MEMORY_NOTIFICATIONS' =
                   IF id \in Ids(IN_MEMORY_NOTIFICATIONS)
                   THEN MarkFirst(IN_MEMORY_NOTIFICATIONS, id)
                   ELSE IN_MEMORY_NOTIFICATIONS
            /\ nf_ret' = IF id \in Ids(IN_MEMORY_NOTIFICATIONS) \cup StaticFallbackIds
                         THEN [success |-> TRUE, fallback |-> TRUE]
                         ELSE DatabaseUnavailable
            /\ UNCHANGED db_notifications
       ELSE /\ db_notifications' =
                   IF id \in Ids(db_notifications) THEN MarkFirst(db_notifications, id)
                   ELSE db_notifications
            /\ nf_ret' = IF id \in Ids(db_notifications) THEN [success |-> TRUE]
                         ELSE NotFound
            /\ UNCHANGED IN_MEMORY_NOTIFICATIONS

\* delete_notification
DeleteNotification(id) ==
    /\ NfCalled("delete_notification", id)
    /\ UNCHANGED nf_ids
    /\ IF ~ValidateObjectId(id)
       THEN /\ nf_ret' = InvalidIdFormat
            /\ UNCHANGED <<IN_MEMORY_NOTIFICATIONS, db_notifications>>
       ELSE IF ~db_available
       THEN /\ IN_MEMORY_NOTIFICATIONS' = RemoveId(IN_MEMORY_NOTIFICATIONS, id)
            /\ nf_ret' = IF id \in Ids(IN_MEMORY_NOTIFICATIONS) \cup StaticFallbackIds
                         THEN [success |-> TRUE, fallback |-> TRUE]
                         ELSE DatabaseUnavailable
            /\ UNCHANGED db_notifications
       ELSE /\ db_notifications' = RemoveId(db_notifications, id)
            /\ nf_ret' = IF id \in Ids(db_notifications) THEN [success |-> TRUE]
                         ELSE NotFound
            /\ UNCHANGED IN_MEMORY_NOTIFICATIONS

\* get_db() starts or stops raising
DatabaseSwitches ==
    /\ db_available' = ~db_available
    /\ nf_call' = [name |-> "none", arg |-> <<>>, store |-> IN_MEMORY_NOTIFICATIONS,
                   db_store |-> db_notifications, db |-> ~db_available]
    /\ nf_ret' = NoCall
    /\ UNCHANGED <<detvars, ghostvars, tvars, optvars, fdvars, livevars, routevars,
                   IN_MEMORY_NOTIFICATIONS, db_notifications, nf_ids>>

InitSpecNotifications == InitAdaptive({1}, BaseThresholds) /\ InitRest

NextNotifications ==
    \/ \E data \in NotificationInputs, hex \in UuidHexes, oid \in InsertedIds :
          AddNotification(data, hex, oid)
    \/ \E id \in NotificationIds : MarkAsRead(id)
    \/ \E id \in NotificationIds : DeleteNotification(id)
    \/ DatabaseSwitches

SpecNotifications == InitSpecNotifications /\ [][NextNotifications]_vars

\* the last call was made while the database was unavailable, with the id of a
\* notification add_notification had stored in memory
OnStored == ~nf_call.db /\ nf_call.arg \in Ids(nf_call.store) \cap nf_ids

OnStatic == ~nf_call.db /\ nf_call.arg \in StaticFallbackIds

\* C30: while the database is unavailable, mark_as_read with the id add_notification
\* returned succeeds and sets that notification's read flag, delete_notification with it
\* succeeds and removes the notification, and both succeed on the ids 'fallback-1' and
\* 'fallback-2'.
C30_FallbackManagedById ==
    /\ (nf_call.name = "mark_as_read" /\ OnStored) =>
          /\ nf_ret.success
          /\ \E i \in 1..Len(IN_MEMORY_NOTIFICATIONS) :
                /\ IN_MEMORY_NOTIFICATIONS[i].id = nf_call.arg
                /\ IN_MEMORY_NOTIFICATIONS[i].read
    /\ (nf_call.name = "delete_notification" /\ OnStored) =>
          /\ nf_ret.success
          /\ nf_call.arg \notin Ids(IN_MEMORY_NOTIFICATIONS)
    /\ (nf_call.name \in {"mark_as_read", "delete_notification"} /\ OnStatic) =>
          nf_ret.success

\* with the database available, the id add_notification returned does manage the
\* notification it names
C30_DatabaseManagedById ==
    LET stored == nf_call.db /\ nf_call.arg \in Ids(nf_call.db_store)
    IN  /\ (nf_call.name = "mark_as_read" /\ stored) =>
              /\ nf_ret.success
              /\ \E i \in 1..Len(db_notifications) :
                    db_notifications[i].id = nf_call.arg /\ db_notifications[i].read
        /\ (nf_call.name = "delete_notification" /\ stored) =>
              /\ nf_ret.success
              /\ nf_call.arg \notin Ids(db_notifications)

====
